---------------------------- MODULE Spec2Model ----------------------------
(***************************************************************************)
(* Stock / price ledger and transaction orchestrators of goodpack-server.  *)
(*                                                                         *)
(* The stored documents (products, purchases, sales, stock adjustments,    *)
(* quotations) and the uploaded image files are the state.  Every HTTP     *)
(* handler is one action; a step of the action is one repository call of   *)
(* the handler with the computation up to the next one, and the steps of   *)
(* two requests may alternate in any order.                                *)
(* Money is counted in whole cents.  A repository write may fail: which    *)
(* write of a request fails is an input of the request (Fault).            *)
(***************************************************************************)
EXTENDS Integers, Sequences, FiniteSets, TLC

VARIABLES
    products,      \* product collection: id -> product document
    purchases,     \* purchase collection: id -> purchase document
    sales,         \* sale collection: id -> sale document
    adjustments,   \* stock adjustment collection: id -> StockAdjustment
    nextID,        \* next fresh ObjectID handed out by the driver
    log,           \* history: one entry per finished request, with its HTTP answer
    ledger,        \* LedgerSpec only: a product and the ledger calls made on it
    workers,       \* requests in flight, each with what it has read so far
    quotations,    \* quotation collection: the documents in the order of their insertion
    files,         \* the files under uploads/products
    config         \* the tables the server read from config/*.json when it started

vars == <<products, purchases, sales, adjustments, nextID, log, ledger, workers, quotations, files,
          config>>

-----------------------------------------------------------------------------
(* Bounds of the model *)

\* number of requests in one behaviour of Spec, where two may be in flight at once
MaxOps == 2
\* number of requests in one behaviour of Spec that uploads and deletes images
\* and serves nothing else
MaxImageOps == 3
\* number of requests in one behaviour of SerialSpec
MaxSerialOps == 3
\* number of ledger calls in one behaviour of LedgerSpec
MaxCalls == 2
\* number of requests in one behaviour of CodeSpec that runs them one at a time
MaxCodeOps == 3
\* number of requests in one behaviour of QuotationSpec that runs them one at
\* a time
MaxQuotationOps == 3
\* number of requests in one behaviour of MigrationSpec
MaxMigrationOps == 2

NoDoc == "NoDoc"

\* primitive.ObjectID{}.Hex(): the id of a document whose ID was never set
ZeroID == 0

ProductIDs == {"p1", "p2"}
\* an id that resolves to no product
UnknownProduct == "p9"

\* time.Now() of a request: the year, the month and the day of the month
Clocks == {[year |-> 2024, month |-> 10, day |-> 5]}

-----------------------------------------------------------------------------
(* float64: the non-negative values m * 2^e of the price fields; the mantissa m
   is a natural number held as limbs of 15 bits, least significant first, and
   every operation rounds to 53 bits, ties to even, as the hardware does *)

MantissaBits == 53

LimbBase == 2^15

RECURSIVE BigNorm(_)
BigNorm(x) ==
    IF x = <<>> THEN x
    ELSE IF x[Len(x)] = 0 THEN BigNorm(SubSeq(x, 1, Len(x) - 1)) ELSE x

RECURSIVE BigFromInt(_)
BigFromInt(n) == IF n = 0 THEN <<>> ELSE <<n % LimbBase>> \o BigFromInt(n \div LimbBase)

RECURSIVE BigToInt(_)
BigToInt(x) == IF x = <<>> THEN 0 ELSE x[1] + LimbBase * BigToInt(Tail(x))

Limb(x, i) == IF i <= Len(x) THEN x[i] ELSE 0

RECURSIVE BigAddFrom(_, _, _, _)
BigAddFrom(x, y, i, carry) ==
    IF i > Len(x) /\ i > Len(y) THEN (IF carry = 0 THEN <<>> ELSE <<carry>>)
    ELSE LET t == Limb(x, i) + Limb(y, i) + carry
         IN  <<t % LimbBase>> \o BigAddFrom(x, y, i + 1, t \div LimbBase)

BigAdd(x, y) == BigAddFrom(x, y, 1, 0)

RECURSIVE BigMulFrom(_, _, _, _)
BigMulFrom(x, k, i, carry) ==
    IF i > Len(x) THEN BigFromInt(carry)
    ELSE LET t == x[i] * k + carry
         IN  <<t % LimbBase>> \o BigMulFrom(x, k, i + 1, t \div LimbBase)

\* x * k for 0 <= k <= LimbBase
BigMulSmall(x, k) == BigNorm(BigMulFrom(x, k, 1, 0))

RECURSIVE BigDivFrom(_, _, _, _)
BigDivFrom(x, k, i, rem) ==
    IF i = 0 THEN [q |-> <<>>, r |-> rem]
    ELSE LET t == rem * LimbBase + x[i]
             rest == BigDivFrom(x, k, i - 1, t % k)
         IN  [q |-> Append(rest.q, t \div k), r |-> rest.r]

\* quotient and remainder of x by k, 0 < k <= LimbBase
BigDivSmall(x, k) ==
    LET d == BigDivFrom(x, k, Len(x), 0) IN [q |-> BigNorm(d.q), r |-> d.r]

RECURSIVE BigZeros(_)
BigZeros(n) == IF n = 0 THEN <<>> ELSE <<0>> \o BigZeros(n - 1)

\* x * 2^s
BigShl(x, s) == IF x = <<>> THEN x ELSE BigZeros(s \div 15) \o BigMulSmall(x, 2^(s % 15))

\* x \div 2^s
BigShr(x, s) ==
    IF s \div 15 >= Len(x) THEN <<>>
    ELSE BigDivSmall(SubSeq(x, (s \div 15) + 1, Len(x)), 2^(s % 15)).q

RECURSIVE BitLen(_)
BitLen(n) == IF n = 0 THEN 0 ELSE 1 + BitLen(n \div 2)

BigBitLen(x) == IF x = <<>> THEN 0 ELSE 15 * (Len(x) - 1) + BitLen(x[Len(x)])

BigOdd(x) == x # <<>> /\ x[1] % 2 = 1

RECURSIVE TrailingZeros(_)
TrailingZeros(n) == IF n % 2 = 1 THEN 0 ELSE 1 + TrailingZeros(n \div 2)

RECURSIVE BigTrailingZeros(_)
BigTrailingZeros(x) ==
    IF x[1] = 0 THEN 15 + BigTrailingZeros(Tail(x)) ELSE TrailingZeros(x[1])

Float64Zero == [m |-> <<>>, e |-> 0]

\* the value m * 2^e with an odd mantissa, so that equal values are equal records
Float64(m, e) ==
    IF m = <<>> THEN Float64Zero
    ELSE LET z == BigTrailingZeros(m) IN [m |-> BigShr(m, z), e |-> e + z]

\* m * 2^e (plus a little more when sticky) rounded to a float64
Float64Round(m, e, sticky) ==
    LET s == BigBitLen(m) - MantissaBits
    IN  IF s <= 0 THEN Float64(m, e)
        ELSE LET y == BigShr(m, s - 1)
                 q == BigShr(y, 1)
                 st == sticky \/ BigShl(y, s - 1) # m
                 up == BigOdd(y) /\ (st \/ BigOdd(q))
             IN  Float64(IF up THEN BigAdd(q, <<1>>) ELSE q, e + s)

\* x + y
Float64Add(x, y) ==
    IF x.m = <<>> THEN y
    ELSE IF y.m = <<>> THEN x
    ELSE LET e == IF x.e < y.e THEN x.e ELSE y.e
         IN  Float64Round(BigAdd(BigShl(x.m, x.e - e), BigShl(y.m, y.e - e)), e, FALSE)

\* x * k for an integer 0 <= k <= LimbBase
Float64Mul(x, k) == Float64Round(BigMulSmall(x.m, k), x.e, FALSE)

\* x / k for an integer 0 < k <= LimbBase
Float64Div(x, k) ==
    IF x.m = <<>> THEN Float64Zero
    ELSE LET d == BigDivSmall(BigShl(x.m, 75), k)
         IN  Float64Round(d.q, x.e - 75, d.r # 0)

\* Go's int(x)
Float64Trunc(x) ==
    IF x.e >= 0 THEN BigToInt(BigShl(x.m, x.e)) ELSE BigToInt(BigShr(x.m, -(x.e)))

\* the float64 of a price of c whole cents, c / 100
Float64FromCents(c) == Float64Div(Float64(BigFromInt(c), 0), 100)

Float64Half == Float64(<<1>>, -1)

-----------------------------------------------------------------------------
(* Strings.  A string is the sequence of its characters; the characters the  *)
(* codes are made of are listed in the order of their bytes, which is the    *)
(* order of the database's string sort.                                      *)

Ascii ==
    <<" ", "+", ",", "-", ".", "/",
      "0", "1", "2", "3", "4", "5", "6", "7", "8", "9",
      "A", "B", "C", "D", "E", "F", "G", "H", "I", "J", "K", "L", "M",
      "N", "O", "P", "Q", "R", "S", "T", "U", "V", "W", "X", "Y", "Z",
      "a", "b", "c", "d", "e", "f", "g", "h", "i", "j", "k", "l", "m",
      "n", "o", "p", "q", "r", "s", "t", "u", "v", "w", "x", "y", "z">>
Ord(c) == CHOOSE i \in DOMAIN Ascii : Ascii[i] = c
IsDigit(c) == Ord("0") <= Ord(c) /\ Ord(c) <= Ord("9")
IsUpper(c) == Ord("A") <= Ord(c) /\ Ord(c) <= Ord("Z")
IsLower(c) == Ord("a") <= Ord(c) /\ Ord(c) <= Ord("z")
ToLower(c) == IF IsUpper(c) THEN Ascii[Ord(c) - Ord("A") + Ord("a")] ELSE c
ToUpper(c) == IF IsLower(c) THEN Ascii[Ord(c) - Ord("a") + Ord("A")] ELSE c

\* the order of a descending or ascending sort on a string field
RECURSIVE StrLess(_, _)
StrLess(a, b) ==
    IF b = <<>> THEN FALSE
    ELSE IF a = <<>> THEN TRUE
    ELSE IF a[1] = b[1] THEN StrLess(Tail(a), Tail(b))
    ELSE Ord(a[1]) < Ord(b[1])

\* the first document of a sort by the field, descending
Greatest(strs) == CHOOSE s \in strs : \A t \in strs : ~StrLess(s, t)

\* the filter {$regex: "^" + prefix, $options: "i"}
HasPrefixFold(s, prefix) ==
    /\ Len(s) >= Len(prefix)
    /\ \A i \in DOMAIN prefix : ToLower(s[i]) = ToLower(prefix[i])

\* the value of a string of decimal digits
RECURSIVE DecimalValue(_)
DecimalValue(s) ==
    IF s = <<>> THEN 0
    ELSE 10 * DecimalValue(SubSeq(s, 1, Len(s) - 1)) + (Ord(s[Len(s)]) - Ord("0"))

\* strconv.Atoi: an optional sign and one or more decimal digits
Atoi(s) ==
    LET signed == s # <<>> /\ s[1] \in {"+", "-"}
        digits == IF signed THEN Tail(s) ELSE s
    IN  IF digits = <<>> \/ \E i \in DOMAIN digits : ~IsDigit(digits[i])
        THEN [ok |-> FALSE, n |-> 0]
        ELSE [ok |-> TRUE,
              n |-> IF signed /\ s[1] = "-" THEN 0 - DecimalValue(digits)
                    ELSE DecimalValue(digits)]

\* the decimal digits of a natural number
RECURSIVE Itoa(_)
Itoa(n) == IF n < 10 THEN <<Ascii[Ord("0") + n]>> ELSE Append(Itoa(n \div 10), Ascii[Ord("0") + (n % 10)])

RECURSIVE Zeros(_)
Zeros(k) == IF k <= 0 THEN <<>> ELSE <<"0">> \o Zeros(k - 1)

\* fmt.Sprintf("%0<width>d", n): the sign counts in the width, a number that
\* needs more than width characters is written in full
Pad(n, width) ==
    IF n < 0 THEN <<"-">> \o Zeros(width - 1 - Len(Itoa(0 - n))) \o Itoa(0 - n)
    ELSE Zeros(width - Len(Itoa(n))) \o Itoa(n)

\* strings.Split(s, "-"): the number of parts and the last part
DashParts(s) == Cardinality({i \in DOMAIN s : s[i] = "-"}) + 1
LastDashPart(s) ==
    LET dashes == {i \in DOMAIN s : s[i] = "-"}
        from == IF dashes = {} THEN 0 ELSE CHOOSE i \in dashes : \A j \in dashes : j <= i
    IN  SubSeq(s, from + 1, Len(s))

-----------------------------------------------------------------------------
(* models.Stock, models.PriceInfo, models.Price, models.Product; the prices of a
   PriceInfo are kept in whole cents, its two totals as the float64 they are *)

StockInfo(p, s, r) == [Purchased |-> p, Sold |-> s, Remaining |-> r]

ZeroStock == [VAT |-> StockInfo(0, 0, 0), NonVAT |-> StockInfo(0, 0, 0), ActualStock |-> 0]

ZeroPriceInfo ==
    [Latest |-> 0, Min |-> 0, Max |-> 0, Average |-> 0, AverageYTD |-> 0, AverageMTD |-> 0,
     YTDCount |-> 0, YTDTotal |-> Float64Zero, YTDYear |-> 0,
     MTDCount |-> 0, MTDTotal |-> Float64Zero, MTDMonth |-> 0, MTDYear |-> 0]

ZeroPrice ==
    [PurchaseVAT |-> ZeroPriceInfo, PurchaseNonVAT |-> ZeroPriceInfo,
     SaleVAT |-> ZeroPriceInfo, SaleNonVAT |-> ZeroPriceInfo, SalesTiers |-> <<>>]

\* Product.ImageURL: the path of a file under uploads/products; the file is
\* named after the id of the request, the second of the upload and the
\* extension of the uploaded file
ImagePath(id, unix, ext) == [ID |-> id, Unix |-> unix, Ext |-> ext]
\* an ImageURL that is nil or the empty string
NoImage == ImagePath("", 0, "")
NoFiles == {}

\* primitive.ObjectID{}.Hex() of a product whose ID was never set
NilProductID == "000000000000000000000000"

\* ProductRequest.ToProduct: SKU id, code and ID are left empty
ToProduct(req) ==
    [ID |-> NilProductID, SKUID |-> <<>>, Code |-> <<>>, Category |-> req.Category,
     Size |-> req.Size, Color |-> req.Color, ImageURL |-> req.ImageURL,
     Price |-> req.Price, Stock |-> req.Stock]

-----------------------------------------------------------------------------
(* Price ledger: Product.UpdatePrice *)

\* a rounding that drops the part of a cent instead of rounding it
Round2Truncating(x) == Float64Trunc(Float64Mul(x, 100))

\* float64(int(x*100+0.5))/100, as the whole cents int(x*100+0.5)
Round2(x) == Float64Trunc(Float64Add(Float64Mul(x, 100), Float64Half))

\* the first-case test and comparison of step 2
MinPrice(min, newPrice) == IF min = 0 \/ newPrice < min THEN newPrice ELSE min

MaxPrice(max, newPrice) == IF newPrice > max THEN newPrice ELSE max

\* step 4: (old + new) / 2, rounded; the first price as it is, rounded
AveragePrice(average, newPrice) ==
    IF average = 0 THEN Round2(Float64FromCents(newPrice))
    ELSE Round2(Float64Div(Float64Add(Float64FromCents(average),
                                      Float64FromCents(newPrice)), 2))

\* steps 5 and 6: a period starts again with this price or takes it in
PeriodUpdate(reset, count, total, newPrice) ==
    IF reset
    THEN [count |-> 1, total |-> Float64FromCents(newPrice), average |-> newPrice]
    ELSE LET sum == Float64Add(total, Float64FromCents(newPrice))
         IN  [count |-> count + 1, total |-> sum,
              average |-> Round2(Float64Div(sum, count + 1))]

PriceInfoOf(newPrice, min, max, average, ytd, mtd, now) ==
    [Latest |-> newPrice, Min |-> min, Max |-> max, Average |-> average,
     AverageYTD |-> ytd.average, AverageMTD |-> mtd.average,
     YTDCount |-> ytd.count, YTDTotal |-> ytd.total, YTDYear |-> now.year,
     MTDCount |-> mtd.count, MTDTotal |-> mtd.total,
     MTDMonth |-> now.month, MTDYear |-> now.year]

\* an update whose minimum has no first-case test: it keeps the smaller of the two
UpdatePriceInfoWithoutFirstCase(pi, newPrice, now) ==
    PriceInfoOf(newPrice,
                IF newPrice < pi.Min THEN newPrice ELSE pi.Min,
                MaxPrice(pi.Max, newPrice),
                AveragePrice(pi.Average, newPrice),
                PeriodUpdate(pi.YTDYear # now.year, pi.YTDCount, pi.YTDTotal, newPrice),
                PeriodUpdate(pi.MTDYear # now.year \/ pi.MTDMonth # now.month,
                             pi.MTDCount, pi.MTDTotal, newPrice),
                now)

\* an update that never starts a new year: the year-to-date figures only accumulate
UpdatePriceInfoKeepingYear(pi, newPrice, now) ==
    PriceInfoOf(newPrice,
                MinPrice(pi.Min, newPrice),
                MaxPrice(pi.Max, newPrice),
                AveragePrice(pi.Average, newPrice),
                PeriodUpdate(FALSE, pi.YTDCount, pi.YTDTotal, newPrice),
                PeriodUpdate(pi.MTDYear # now.year \/ pi.MTDMonth # now.month,
                             pi.MTDCount, pi.MTDTotal, newPrice),
                now)

\* an update whose month-to-date period is keyed on the month alone
UpdatePriceInfoKeyedOnMonth(pi, newPrice, now) ==
    PriceInfoOf(newPrice,
                MinPrice(pi.Min, newPrice),
                MaxPrice(pi.Max, newPrice),
                AveragePrice(pi.Average, newPrice),
                PeriodUpdate(pi.YTDYear # now.year, pi.YTDCount, pi.YTDTotal, newPrice),
                PeriodUpdate(pi.MTDMonth # now.month, pi.MTDCount, pi.MTDTotal, newPrice),
                now)

UpdatePriceInfo(pi, newPrice, now) ==
    PriceInfoOf(newPrice,
                MinPrice(pi.Min, newPrice),
                MaxPrice(pi.Max, newPrice),
                AveragePrice(pi.Average, newPrice),
                PeriodUpdate(pi.YTDYear # now.year, pi.YTDCount, pi.YTDTotal, newPrice),
                PeriodUpdate(pi.MTDYear # now.year \/ pi.MTDMonth # now.month,
                             pi.MTDCount, pi.MTDTotal, newPrice),
                now)

PriceBucket(isVAT, isPurchase) ==
    IF isPurchase
    THEN (IF isVAT THEN "PurchaseVAT" ELSE "PurchaseNonVAT")
    ELSE (IF isVAT THEN "SaleVAT" ELSE "SaleNonVAT")

\* an update that writes the new price into both tax classes of the chosen side
UpdatePriceBothTaxClasses(product, newPrice, isVAT, isPurchase, now) ==
    LET b == PriceBucket(isVAT, isPurchase)
        o == PriceBucket(~isVAT, isPurchase)
    IN  [product EXCEPT !.Price[b] = UpdatePriceInfo(product.Price[b], newPrice, now),
                        !.Price[o] = UpdatePriceInfo(product.Price[o], newPrice, now)]

UpdatePrice(product, newPrice, isVAT, isPurchase, now) ==
    LET b == PriceBucket(isVAT, isPurchase)
    IN  [product EXCEPT !.Price[b] = UpdatePriceInfo(product.Price[b], newPrice, now)]

-----------------------------------------------------------------------------
(* Stock ledger: ApplyStockAdjustment *)

AdjustmentTypeAdd == "add"
AdjustmentTypeReduce == "reduce"
StockTypeVAT == "vat"
StockTypeNonVAT == "nonvat"
StockTypeActualStock == "actualstock"
SourceTypePurchase == "purchase"
SourceTypeSale == "sale"
SourceTypeAdjustment == "adjustment"

AdjustmentTypes == {AdjustmentTypeAdd, AdjustmentTypeReduce}
StockTypes == {StockTypeVAT, StockTypeNonVAT, StockTypeActualStock}

\* a ledger whose add forgets the actual stock
ApplyForgettingActualStock(product, adjustmentType, stockType, quantity) ==
    IF stockType = StockTypeActualStock
    THEN IF adjustmentType = AdjustmentTypeAdd
         THEN [product EXCEPT !.Stock.ActualStock = @ + quantity]
         ELSE [product EXCEPT !.Stock.ActualStock = @ - quantity]
    ELSE LET f == IF stockType = StockTypeVAT THEN "VAT" ELSE "NonVAT"
         IN  IF adjustmentType = AdjustmentTypeAdd
             THEN [product EXCEPT !.Stock[f].Purchased = @ + quantity,
                                  !.Stock[f].Remaining = @ + quantity]
             ELSE [product EXCEPT !.Stock[f].Sold = @ + quantity,
                                  !.Stock[f].Remaining = @ - quantity,
                                  !.Stock.ActualStock = @ - quantity]

\* a ledger whose reduce stops at zero
ApplyClampingAtZero(product, adjustmentType, stockType, quantity) ==
    LET floor(x) == IF x < 0 THEN 0 ELSE x
    IN  IF stockType = StockTypeActualStock
        THEN IF adjustmentType = AdjustmentTypeAdd
             THEN [product EXCEPT !.Stock.ActualStock = @ + quantity]
             ELSE [product EXCEPT !.Stock.ActualStock = floor(@ - quantity)]
        ELSE LET f == IF stockType = StockTypeVAT THEN "VAT" ELSE "NonVAT"
             IN  IF adjustmentType = AdjustmentTypeAdd
                 THEN [product EXCEPT !.Stock[f].Purchased = @ + quantity,
                                      !.Stock[f].Remaining = @ + quantity,
                                      !.Stock.ActualStock = @ + quantity]
                 ELSE [product EXCEPT !.Stock[f].Sold = @ + quantity,
                                      !.Stock[f].Remaining = floor(@ - quantity),
                                      !.Stock.ActualStock = floor(@ - quantity)]

\* a ledger whose add counts the purchase but leaves remaining as it was
ApplyAddKeepingRemaining(product, adjustmentType, stockType, quantity) ==
    IF stockType = StockTypeActualStock
    THEN IF adjustmentType = AdjustmentTypeAdd
         THEN [product EXCEPT !.Stock.ActualStock = @ + quantity]
         ELSE [product EXCEPT !.Stock.ActualStock = @ - quantity]
    ELSE LET f == IF stockType = StockTypeVAT THEN "VAT" ELSE "NonVAT"
         IN  IF adjustmentType = AdjustmentTypeAdd
             THEN [product EXCEPT !.Stock[f].Purchased = @ + quantity,
                                  !.Stock.ActualStock = @ + quantity]
             ELSE [product EXCEPT !.Stock[f].Sold = @ + quantity,
                                  !.Stock[f].Remaining = @ - quantity,
                                  !.Stock.ActualStock = @ - quantity]

ApplyStockAdjustment(product, adjustmentType, stockType, quantity) ==
    IF stockType = StockTypeActualStock
    THEN IF adjustmentType = AdjustmentTypeAdd
         THEN [product EXCEPT !.Stock.ActualStock = @ + quantity]
         ELSE [product EXCEPT !.Stock.ActualStock = @ - quantity]
    ELSE LET f == IF stockType = StockTypeVAT THEN "VAT" ELSE "NonVAT"
         IN  IF adjustmentType = AdjustmentTypeAdd
             THEN [product EXCEPT !.Stock[f].Purchased = @ + quantity,
                                  !.Stock[f].Remaining = @ + quantity,
                                  !.Stock.ActualStock = @ + quantity]
             ELSE [product EXCEPT !.Stock[f].Sold = @ + quantity,
                                  !.Stock[f].Remaining = @ - quantity,
                                  !.Stock.ActualStock = @ - quantity]


-----------------------------------------------------------------------------
(* Persistence collaborator: the four collections and the driver's ids *)

Has(coll, id) == id \in DOMAIN coll
Put(coll, id, doc) == [x \in (DOMAIN coll) \cup {id} |-> IF x = id THEN doc ELSE coll[x]]
Remove(coll, id) == [x \in (DOMAIN coll) \ {id} |-> coll[x]]
EmptyColl == [x \in {} |-> NoDoc]

\* ReplaceOne puts the whole document it is handed in the place of the stored
\* one; a filter that matches nothing is no error
ReplaceOne(coll, id, doc) == IF Has(coll, id) THEN Put(coll, id, doc) ELSE coll

\* ProductRepository.Update
ProductUpdate(coll, id, product) == ReplaceOne(coll, id, product)

\* Which repository write of a request fails: the at-th write of one kind.
\*   product: ProductRepository.Update in the main item loop
\*   restore: ProductRepository.Update in the restore loop of UpdateSale / DeleteSale
\*   audit:   StockAdjustmentRepository.Create
\*   doc:     the write of the request's own document (Create / Update / Delete)
Fault(kind, at) == [kind |-> kind, at |-> at]
NoFault == Fault("none", 0)
Fails(fault, kind, at) == fault.kind = kind /\ fault.at = at

\* One persisted ledger call: the stock the handler read before the call and the
\* stock it wrote after it; rec is the id of the audit record written for the call
\* (ZeroID: none), rev the id of the record the call reverses (ZeroID: none).
Call(product, adjustmentType, stockType, quantity, updated, rec, rev) ==
    [ProductID |-> product.ID, AdjustmentType |-> adjustmentType, StockType |-> stockType,
     Quantity |-> quantity, before |-> product.Stock, after |-> updated.Stock,
     rec |-> rec, rev |-> rev]

-----------------------------------------------------------------------------
(* Stock audit recorder *)

\* StockAdjustmentRequest.ToStockAdjustment: the before values are copied here
ToStockAdjustment(req, product, sourceType, sourceID) ==
    [ID |-> ZeroID, ProductID |-> product.ID,
     AdjustmentType |-> req.AdjustmentType, StockType |-> req.StockType,
     Quantity |-> req.Quantity,
     Before |-> product.Stock, After |-> ZeroStock,
     SourceType |-> sourceType, SourceID |-> sourceID]

SetAfterValues(adjustment, product) == [adjustment EXCEPT !.After = product.Stock]

\* StockAdjustmentRepository.Create: a zero ID is replaced by a fresh one
AdjustmentCreate(db, adjustment, fails) ==
    IF fails
    THEN [db |-> db, err |-> TRUE, id |-> ZeroID]
    ELSE [db |-> [db EXCEPT !.adjustments =
                      Put(@, db.nextID, [adjustment EXCEPT !.ID = db.nextID]),
                            !.nextID = @ + 1],
          err |-> FALSE, id |-> db.nextID]

\* RecordStockChange: before and after are both read from the product it is handed
RecordStockChange(db, product, sourceType, sourceID, adjustmentType, stockType, quantity, fails) ==
    LET adjustment ==
            [ID |-> ZeroID, ProductID |-> product.ID,
             AdjustmentType |-> adjustmentType, StockType |-> stockType,
             Quantity |-> quantity,
             Before |-> product.Stock, After |-> ZeroStock,
             SourceType |-> sourceType, SourceID |-> sourceID]
    IN  AdjustmentCreate(db, SetAfterValues(adjustment, product), fails)

-----------------------------------------------------------------------------
(* Requests in flight.  net/http serves every request on a goroutine of its  *)
(* own and no handler takes a lock or opens a transaction, so between any    *)
(* two repository calls of one request any other request may run.  A step of *)
(* a handler is one repository call together with the computation that       *)
(* follows it, up to the next repository call or to the answer.              *)

Workers == {"w1", "w2"}

\* a goroutine that serves no request
Idle == [pc |-> "idle"]

\* the handler goes on to the repository call pc
Goto(db, w, pc) == [db |-> db, w |-> [w EXCEPT !.pc = pc]]
Still(db, w) == [db |-> db, w |-> w]
\* the handler answers
Reply(db, w, status) == [db |-> db, w |-> [w EXCEPT !.pc = "done", !.status = status]]

\* productRepo.Update returned no error: the handler holds the document it
\* sent, and its ledger call counts as persisted
Wrote(db, w, updated, adjustmentType, stockType, quantity, rev, pc) ==
    Goto([db EXCEPT !.products = ProductUpdate(@, updated.ID, updated)],
         [w EXCEPT !.read = updated,
                   !.applied = Append(@, Call(w.read, adjustmentType, stockType, quantity,
                                              updated, ZeroID, rev))],
         pc)

\* the audit record of the last ledger call was stored under id (ZeroID: it was not)
Filed(w, id) == [w EXCEPT !.applied[Len(w.applied)].rec = id]

-----------------------------------------------------------------------------
(* SKU ids and product codes *)

Upper(s) == [i \in DOMAIN s |-> ToUpper(s[i])]
Lower(s) == [i \in DOMAIN s |-> ToLower(s[i])]

\* strings.Fields: the words between the spaces
RECURSIVE Fields(_)
Fields(s) ==
    IF s = <<>> THEN <<>>
    ELSE IF s[1] = " " THEN Fields(Tail(s))
    ELSE LET stops == {i \in DOMAIN s : s[i] = " "}
             end == IF stops = {} THEN Len(s) + 1
                    ELSE CHOOSE i \in stops : \A j \in stops : i <= j
         IN  <<SubSeq(s, 1, end - 1)>> \o Fields(SubSeq(s, end, Len(s)))

\* strings.TrimSpace
RECURSIVE TrimSpace(_)
TrimSpace(s) ==
    IF s = <<>> THEN s
    ELSE IF s[1] = " " THEN TrimSpace(Tail(s))
    ELSE IF s[Len(s)] = " " THEN TrimSpace(SubSeq(s, 1, Len(s) - 1))
    ELSE s

\* ConfigLoader.LoadConfig reads the tables of config/categories.json and
\* config/colors.json when the server starts.  The files are no part of the
\* source: what they hold is an input of the server.  When they cannot be read
\* NewProductHandler and NewSKUGenerator go on with empty tables; LoadConfig
\* stops at the first file it cannot read, so the categories may be there
\* without the colors.
NoConfig == [Categories |-> <<>>, Colors |-> <<>>]
\* tables of one entry each
OneEntryConfig ==
    [Categories |-> <<[Name |-> <<"B", "o", "x">>, English |-> <<"c", "a", "r", "t", "o", "n">>,
                       Abbreviation |-> <<"B", "X">>]>>,
     Colors |-> <<[Name |-> <<"R", "e", "d">>, English |-> <<"r", "e", "d">>,
                   Abbreviation |-> <<"R", "D">>]>>]

CategoriesOnlyConfig == [OneEntryConfig EXCEPT !.Colors = <<>>]

\* ConfigData.Categories and ConfigData.Colors of the loader
ConfigCategories == config.Categories
ConfigColors == config.Colors

\* the abbreviation of the first entry of the table whose name or english
\* name is the given name, in any case of the letters; <<>> when none is
Configured(table, name) ==
    LET hits == {i \in DOMAIN table : \/ Lower(table[i].Name) = Lower(name)
                                      \/ Lower(table[i].English) = Lower(name)}
    IN  IF hits = {} THEN <<>>
        ELSE <<table[CHOOSE i \in hits : \A j \in hits : i <= j].Abbreviation>>

\* ConfigLoader.GetCategoryAbbreviation
GetCategoryAbbreviation(categoryName) ==
    IF Configured(ConfigCategories, categoryName) # <<>>
    THEN Configured(ConfigCategories, categoryName)[1]
    ELSE LET words == Fields(categoryName)
             initials == [i \in DOMAIN words |-> ToUpper(words[i][1])]
         IN  IF Len(words) = 1
             THEN IF Len(categoryName) >= 3 THEN Upper(SubSeq(categoryName, 1, 3))
                  ELSE Upper(categoryName)
             ELSE IF Len(initials) > 3 THEN SubSeq(initials, 1, 3) ELSE initials

\* ConfigLoader.GetColorAbbreviation
GetColorAbbreviation(colorName) ==
    IF Configured(ConfigColors, colorName) # <<>>
    THEN Configured(ConfigColors, colorName)[1]
    ELSE IF Len(colorName) >= 2 THEN Upper(SubSeq(colorName, 1, 2))
    ELSE Upper(colorName)

\* SKUGenerator.GenerateSKUID
GenerateSKUID(category, lastNumber) ==
    GetCategoryAbbreviation(category) \o <<"-">> \o Pad(lastNumber + 1, 4)

\* SKUGenerator.GenerateProductCode: the size in lower case without spaces
GenerateProductCode(category, size, color) ==
    GetCategoryAbbreviation(category) \o <<"-">>
        \o SelectSeq(Lower(size), LAMBDA c : c # " ")
        \o <<"/">> \o GetColorAbbreviation(color)

\* SKUGenerator.ParseSKUID: the pattern ^([A-Z]{2,3})-(\d{4})$
ParseSKUID(skuID) ==
    LET n == Len(skuID) - 5
    IN  IF /\ n \in {2, 3}
           /\ \A i \in 1..n : IsUpper(skuID[i])
           /\ skuID[n + 1] = "-"
           /\ \A i \in (n + 2)..(n + 5) : IsDigit(skuID[i])
        THEN [ok |-> TRUE, category |-> SubSeq(skuID, 1, n),
              number |-> Atoi(SubSeq(skuID, n + 2, n + 5)).n]
        ELSE [ok |-> FALSE, category |-> <<>>, number |-> 0]

\* the loop of GetNextSKUNumber over the first k SKUs
RECURSIVE MaxSKUNumber(_, _, _)
MaxSKUNumber(categoryAbbrev, existingSKUs, k) ==
    IF k = 0 THEN 0
    ELSE LET maxNumber == MaxSKUNumber(categoryAbbrev, existingSKUs, k - 1)
             parsed == ParseSKUID(existingSKUs[k])
         IN  IF parsed.ok /\ parsed.category = categoryAbbrev /\ parsed.number > maxNumber
             THEN parsed.number ELSE maxNumber

\* a generator that counts the SKUs of the category instead
GetNextSKUNumberCounting(category, existingSKUs) ==
    Cardinality({i \in DOMAIN existingSKUs :
                    /\ ParseSKUID(existingSKUs[i]).ok
                    /\ ParseSKUID(existingSKUs[i]).category = GetCategoryAbbreviation(category)})

\* SKUGenerator.GetNextSKUNumber
GetNextSKUNumber(category, existingSKUs) ==
    MaxSKUNumber(GetCategoryAbbreviation(category), existingSKUs, Len(existingSKUs))

\* one of the three parts of the migration code: two characters in upper case,
\* padded with X
TwoChars(s) ==
    IF Len(Upper(s)) > 2 THEN SubSeq(Upper(s), 1, 2)
    ELSE IF Len(Upper(s)) = 1 THEN Upper(s) \o <<"X">>
    ELSE IF Len(Upper(s)) = 0 THEN <<"X", "X">>
    ELSE Upper(s)

\* MigrationHandler.generateProductCode
generateProductCode(category, size, color) ==
    TwoChars(category) \o <<"-">> \o TwoChars(size) \o <<"/">> \o TwoChars(color)

\* The driver hands out the ids of the products in this order, and a
\* collection scan returns the products in the order of their insertion.
SeedProductIDs == <<"p1", "p2", "p3">>
FreshProductIDs == <<"n1", "n2", "n3", "n4", "n5", "n6", "n7", "n8", "n9", "n10", "n11", "n12">>
\* the ids of the stored products in their natural order
Natural(coll) == SelectSeq(SeedProductIDs \o FreshProductIDs, LAMBDA id : id \in DOMAIN coll)

\* ProductRepository.getAllSKUIDs: the SKU ids of the stored products
getAllSKUIDs(coll) == [i \in DOMAIN Natural(coll) |-> coll[Natural(coll)[i]].SKUID]

\* ProductRepository.GetBySKUID: FindOne on skuId; the ids of the products
\* that match, in natural order, of which the first is returned
GetBySKUID(coll, skuID) == SelectSeq(Natural(coll), LAMBDA id : coll[id].SKUID = skuID)

\* ProductRepository.GetByCode: FindOne on code
GetByCode(coll, code) == SelectSeq(Natural(coll), LAMBDA id : coll[id].Code = code)

\* ProductRepository.Create after getAllSKUIDs: the SKU id and the code of the
\* product it is handed are overwritten by the generated ones, and InsertOne
\* stores the product under a fresh id
ProductCreate(product, existingSKUs, id) ==
    [product EXCEPT
        !.ID = id,
        !.SKUID = GenerateSKUID(product.Category,
                                GetNextSKUNumber(product.Category, existingSKUs)),
        !.Code = GenerateProductCode(product.Category, product.Size, product.Color)]

\* a product as ProductRepository.Create stored it some time ago, with the
\* stock it has by now
StoredProduct(id, skuID, category, size, color, stock) ==
    [ID |-> id, SKUID |-> skuID, Code |-> GenerateProductCode(category, size, color),
     Category |-> category, Size |-> size, Color |-> color, ImageURL |-> NoImage,
     Price |-> ZeroPrice, Stock |-> stock]

\* the two products of the catalogue: boxes in red, of size L and of size M,
\* with the SKU ids the server gave them
NewProduct(id, stock) ==
    IF id = "p1"
    THEN StoredProduct(id, GenerateSKUID(<<"B", "o", "x">>, 0), <<"B", "o", "x">>, <<"L">>,
                       <<"R", "e", "d">>, stock)
    ELSE StoredProduct(id, GenerateSKUID(<<"B", "o", "x">>, 1), <<"B", "o", "x">>, <<"M">>,
                       <<"R", "e", "d">>, stock)

-----------------------------------------------------------------------------
(* Sequential transaction codes of purchases and sales *)

\* time.Now() of a request that creates a purchase or a sale
CodeClocks == {[year |-> 2024, month |-> 1, day |-> 5], [year |-> 2024, month |-> 2, day |-> 5]}

\* fmt.Sprintf("%02d%02d", beYear%100, month) with the Buddhist-era year
DateStr(now) == Pad((now.year + 543) % 100, 2) \o Pad(now.month, 2)

\* the codes of the stored documents of a collection
PurchaseCodes(coll) == {coll[id].PurchaseCode : id \in DOMAIN coll}
SaleCodes(coll) == {coll[id].SaleCode : id \in DOMAIN coll}

\* the codes of the documents the prefix filter selects
Matching(stored, prefix) == {code \in stored : HasPrefixFold(code, prefix)}

\* PurchaseRepository.GetNextSequenceNumber: the last four characters of the
\* greatest matching code are parsed
PurchaseGetNextSequenceNumber(stored, prefix) ==
    IF Matching(stored, prefix) = {} THEN 1
    ELSE LET last == Greatest(Matching(stored, prefix))
             seq == Atoi(SubSeq(last, Len(last) - 3, Len(last)))
         IN  IF last # <<>> /\ Len(last) >= 4
             THEN IF seq.ok THEN seq.n + 1 ELSE 1
             ELSE 1

\* SaleRepository.GetNextSequenceNumber: the part after the last dash of the
\* greatest matching code is parsed
SaleGetNextSequenceNumber(stored, prefix) ==
    IF Matching(stored, prefix) = {} THEN 1
    ELSE LET last == Greatest(Matching(stored, prefix))
             seq == Atoi(LastDashPart(last))
         IN  IF last = <<>> THEN 1
             ELSE IF DashParts(last) < 3 THEN 1
             ELSE IF seq.ok THEN seq.n + 1 ELSE 1

PurchasePrefix(isVAT, now) == (IF isVAT THEN <<"P", "U", "R", "-", "V", "A", "T", "-">> ELSE <<"P", "U", "R", "-", "N", "V", "-">>) \o DateStr(now)
SalePrefix(isVAT, now) == (IF isVAT THEN <<"I", "N", "V", "-">> ELSE <<"N", "V", "-">>) \o DateStr(now)

\* PurchaseHandler.generatePurchaseID on the codes GetNextSequenceNumber finds
generatePurchaseID(stored, isVAT, now) ==
    PurchasePrefix(isVAT, now) \o <<"-">>
        \o Pad(PurchaseGetNextSequenceNumber(stored, PurchasePrefix(isVAT, now)), 4)

\* SaleHandler.generateSaleID on the codes GetNextSequenceNumber finds
generateSaleID(stored, isVAT, now) ==
    SalePrefix(isVAT, now) \o <<"-">>
        \o Pad(SaleGetNextSequenceNumber(stored, SalePrefix(isVAT, now)), 4)

\* fmt.Sprintf("%04d%02d%02d", year, month, day) of the migration generators
DayStr(now) == Pad(now.year, 4) \o Pad(now.month, 2) \o Pad(now.day, 2)

\* MigrationHandler.generatePurchaseCode: no stored code is read
generatePurchaseCode(isVAT, now) ==
    (IF isVAT THEN <<"P", "V">> ELSE <<"P">>) \o <<"-">> \o DayStr(now) \o <<"-", "0", "0", "1">>

\* MigrationHandler.generateSaleCode
generateSaleCode(isVAT, now) ==
    (IF isVAT THEN <<"S", "V">> ELSE <<"S">>) \o <<"-">> \o DayStr(now) \o <<"-", "0", "0", "1">>

\* the outcome counted for a group of rows of a CSV file
RowSucceeded == "SuccessRows"
RowFailed == "FailedRows"

\* an insert under a unique index on the purchase code
PurchaseCreateUnique(coll, id, purchase) ==
    IF purchase.PurchaseCode \in PurchaseCodes(coll) THEN coll
    ELSE [x \in (DOMAIN coll) \cup {id} |-> IF x = id THEN [purchase EXCEPT !.ID = id] ELSE coll[x]]

\* PurchaseRepository.Create: InsertOne stores the document under a fresh _id;
\* no index makes the code unique
PurchaseCreate(coll, id, purchase) == Put(coll, id, [purchase EXCEPT !.ID = id])

\* SaleRepository.Create: InsertOne
SaleCreate(coll, id, sale) == Put(coll, id, [sale EXCEPT !.ID = id])

-----------------------------------------------------------------------------
(* StockAdjustmentHandler *)

\* a *string that is nil is the empty set, one that points to id is {id}
NoSource == {}

Flip(adjustmentType) ==
    IF adjustmentType = AdjustmentTypeAdd THEN AdjustmentTypeReduce ELSE AdjustmentTypeAdd

\* AdjustStock between GetByID and productRepo.Update: the body is validated
\* and the record is made with the stock that was read
AdjustStockValidate(db, w, pc) ==
    IF w.req.Quantity <= 0 THEN Reply(db, w, 400)
    ELSE IF w.req.AdjustmentType # AdjustmentTypeAdd /\ w.req.AdjustmentType # AdjustmentTypeReduce
         THEN Reply(db, w, 400)
    ELSE IF w.req.StockType # StockTypeVAT /\ w.req.StockType # StockTypeNonVAT
            /\ w.req.StockType # StockTypeActualStock
         THEN Reply(db, w, 400)
    ELSE Goto(db, [w EXCEPT !.doc = ToStockAdjustment(w.req, w.read, SourceTypeAdjustment,
                                                      NoSource)], pc)

\* a manual adjustment that files its audit record before it writes the product
AdjustStockRecordingFirst(db, w) ==
    IF w.pc = "productRepo.GetByID"
    THEN IF ~Has(db.products, w.target) THEN Goto(db, w, "productRepo.GetBySKUID")
         ELSE AdjustStockValidate(db, [w EXCEPT !.read = db.products[w.target]],
                                  "adjustmentRepo.Create")
    ELSE IF w.pc = "productRepo.GetBySKUID" THEN Reply(db, w, 404)
    ELSE IF w.pc = "adjustmentRepo.Create"
    THEN LET updated == ApplyStockAdjustment(w.read, w.req.AdjustmentType, w.req.StockType,
                                             w.req.Quantity)
             saved == AdjustmentCreate(db, SetAfterValues(w.doc, updated),
                                       Fails(w.fault, "audit", 1))
         IN  Goto(saved.db, [w EXCEPT !.i = saved.id], "productRepo.Update")
    ELSE IF Fails(w.fault, "product", 1) THEN Reply(db, w, 500)
    ELSE LET wrote == Wrote(db, w,
                            ApplyStockAdjustment(w.read, w.req.AdjustmentType,
                                                 w.req.StockType, w.req.Quantity),
                            w.req.AdjustmentType, w.req.StockType, w.req.Quantity,
                            ZeroID, "done")
         IN  Reply(wrote.db, Filed(wrote.w, w.i), 200)

\* a manual adjustment that applies its delta to the product that is stored
\* at the time of the write instead of the copy it has read
AdjustStockOnStored(db, w) ==
    IF w.pc = "productRepo.GetByID"
    THEN IF ~Has(db.products, w.target) THEN Goto(db, w, "productRepo.GetBySKUID")
         ELSE AdjustStockValidate(db, [w EXCEPT !.read = db.products[w.target]],
                                  "productRepo.Update")
    ELSE IF w.pc = "productRepo.GetBySKUID" THEN Reply(db, w, 404)
    ELSE IF w.pc = "productRepo.Update"
    THEN IF Fails(w.fault, "product", 1) THEN Reply(db, w, 500)
         ELSE Wrote(db, w,
                    ApplyStockAdjustment(IF Has(db.products, w.target)
                                         THEN db.products[w.target] ELSE w.read,
                                         w.req.AdjustmentType, w.req.StockType,
                                         w.req.Quantity),
                    w.req.AdjustmentType, w.req.StockType, w.req.Quantity,
                    ZeroID, "adjustmentRepo.Create")
    ELSE LET saved == AdjustmentCreate(db, SetAfterValues(w.doc, w.read),
                                       Fails(w.fault, "audit", 1))
         IN  Reply(saved.db, Filed(w, saved.id), 200)

\* StockAdjustmentHandler.AdjustStock: productRepo.GetByID (and GetBySKUID when
\* the id resolves to nothing), productRepo.Update, adjustmentRepo.Create
AdjustStock(db, w) ==
    IF w.pc = "productRepo.GetByID"
    THEN IF ~Has(db.products, w.target) THEN Goto(db, w, "productRepo.GetBySKUID")
         ELSE AdjustStockValidate(db, [w EXCEPT !.read = db.products[w.target]],
                                  "productRepo.Update")
    ELSE IF w.pc = "productRepo.GetBySKUID" THEN Reply(db, w, 404)
    ELSE IF w.pc = "productRepo.Update"
    THEN IF Fails(w.fault, "product", 1) THEN Reply(db, w, 500)
         ELSE Wrote(db, w,
                    ApplyStockAdjustment(w.read, w.req.AdjustmentType, w.req.StockType,
                                         w.req.Quantity),
                    w.req.AdjustmentType, w.req.StockType, w.req.Quantity,
                    ZeroID, "adjustmentRepo.Create")
    ELSE LET saved == AdjustmentCreate(db, SetAfterValues(w.doc, w.read),
                                       Fails(w.fault, "audit", 1))
         IN  Reply(saved.db, Filed(w, saved.id), 200)

\* a reversal that puts back the before-snapshot of the record instead of
\* applying the flipped adjustment to the stock it has read
RestoreSnapshot(product, adjustment) == [product EXCEPT !.Stock = adjustment.Before]

\* DeleteStockAdjustment, from reverseType to ApplyStockAdjustment: the flipped
\* adjustment is applied to the product the request has read
ReverseAdjustment(product, adjustment) ==
    ApplyStockAdjustment(product, Flip(adjustment.AdjustmentType), adjustment.StockType,
                         adjustment.Quantity)

\* StockAdjustmentHandler.DeleteStockAdjustment: adjustmentRepo.GetByID,
\* productRepo.GetByID, productRepo.Update, adjustmentRepo.Delete; Delete
\* reports a record that is no longer stored as an error
DeleteStockAdjustment(db, w) ==
    IF w.pc = "adjustmentRepo.GetByID"
    THEN IF ~Has(db.adjustments, w.target) THEN Reply(db, w, 404)
         ELSE Goto(db, [w EXCEPT !.doc = db.adjustments[w.target]], "productRepo.GetByID")
    ELSE IF w.pc = "productRepo.GetByID"
    THEN IF ~Has(db.products, w.doc.ProductID) THEN Reply(db, w, 500)
         ELSE Goto(db, [w EXCEPT !.read = db.products[w.doc.ProductID]], "productRepo.Update")
    ELSE IF w.pc = "productRepo.Update"
    THEN IF Fails(w.fault, "product", 1) THEN Reply(db, w, 500)
         ELSE Wrote(db, w, ReverseAdjustment(w.read, w.doc), Flip(w.doc.AdjustmentType),
                    w.doc.StockType, w.doc.Quantity, w.target, "adjustmentRepo.Delete")
    ELSE IF Fails(w.fault, "doc", 1) \/ ~Has(db.adjustments, w.target) THEN Reply(db, w, 500)
    ELSE Reply([db EXCEPT !.adjustments = Remove(@, w.target)], w, 200)

-----------------------------------------------------------------------------
(* ProductHandler *)

\* ProductHandler.CreateProduct: ToProduct and ProductRepository.Create, which
\* is getAllSKUIDs and InsertOne
CreateProduct(db, w) ==
    IF w.pc = "getAllSKUIDs"
    THEN Goto(db, [w EXCEPT !.read = getAllSKUIDs(db.products)], "InsertOne")
    ELSE IF Fails(w.fault, "doc", 1) THEN Reply(db, w, 500)
    ELSE Reply([db EXCEPT !.products =
                              Put(@, FreshProductIDs[db.nextID],
                                  ProductCreate(ToProduct(w.req), w.read,
                                                FreshProductIDs[db.nextID])),
                          !.nextID = @ + 1],
               [w EXCEPT !.doc = ProductCreate(ToProduct(w.req), w.read,
                                               FreshProductIDs[db.nextID])], 201)

\* ProductHandler.DeleteProduct: DeleteOne, whose count is not looked at
DeleteProduct(db, w) ==
    IF Fails(w.fault, "doc", 1) THEN Reply(db, w, 500)
    ELSE Reply([db EXCEPT !.products = Remove(@, w.target)], w, 204)

\* Product.UpdateFromRequest: every field of the request is taken over, the
\* image as well; SKU id and code stay as they are
UpdateFromRequest(product, req) ==
    [product EXCEPT !.Category = req.Category, !.Size = req.Size, !.Color = req.Color,
                    !.ImageURL = req.ImageURL, !.Price = req.Price, !.Stock = req.Stock]

\* ProductHandler.UpdateProduct: repo.GetByID (and GetBySKUID, which finds
\* nothing under an id), repo.Update
UpdateProduct(db, w) ==
    IF w.pc = "repo.GetByID"
    THEN IF ~Has(db.products, w.target) THEN Goto(db, w, "repo.GetBySKUID")
         ELSE Goto(db, [w EXCEPT !.read = db.products[w.target]], "repo.Update")
    ELSE IF w.pc = "repo.GetBySKUID" THEN Reply(db, w, 404)
    ELSE IF Fails(w.fault, "doc", 1) THEN Reply(db, w, 500)
    ELSE Reply([db EXCEPT !.products =
                    ProductUpdate(@, w.read.ID, UpdateFromRequest(w.read, w.req))], w, 200)

\* the file signatures UploadProductImage accepts and the size it accepts,
\* in bytes
ImageSignatures == {"JPEG", "PNG", "GIF", "WebP"}
MaxImageSize == 5 * 1024 * 1024

\* ProductHandler.UploadProductImage: the file is checked and written to the
\* uploads directory (os.Create, io.Copy); repo.GetByID (and GetBySKUID, which
\* finds nothing under an id); os.Remove of the file of the old image, when
\* the product has one; repo.Update replaces the whole product with the copy
\* that was read, the new path set on it.  The new file is removed again
\* (os.Remove) before the answer when the product is not found or not written.
UploadProductImage(db, w) ==
    LET file == ImagePath(w.target, w.now, w.req.Ext)
    IN  IF w.pc = "os.Create"
        THEN IF w.req.Size > MaxImageSize \/ w.req.Signature \notin ImageSignatures
             THEN Reply(db, w, 400)
             ELSE Goto([db EXCEPT !.files = @ \cup {file}], w, "repo.GetByID")
        ELSE IF w.pc = "repo.GetByID"
        THEN IF ~Has(db.products, w.target) THEN Goto(db, w, "repo.GetBySKUID")
             ELSE Goto(db, [w EXCEPT !.read = db.products[w.target]],
                       IF db.products[w.target].ImageURL = NoImage THEN "repo.Update"
                       ELSE "os.Remove")
        ELSE IF w.pc = "repo.GetBySKUID" THEN Goto(db, w, "not found os.Remove")
        ELSE IF w.pc = "not found os.Remove"
        THEN Reply([db EXCEPT !.files = @ \ {file}], w, 404)
        ELSE IF w.pc = "os.Remove"
        THEN Goto([db EXCEPT !.files = @ \ {w.read.ImageURL}], w, "repo.Update")
        ELSE IF w.pc = "repo.Update"
        THEN IF Fails(w.fault, "doc", 1) THEN Goto(db, w, "not written os.Remove")
             ELSE Reply([db EXCEPT !.products =
                             ProductUpdate(@, w.read.ID, [w.read EXCEPT !.ImageURL = file])],
                        [w EXCEPT !.doc = [w.read EXCEPT !.ImageURL = file]], 200)
        ELSE Reply([db EXCEPT !.files = @ \ {file}], w, 500)

\* ProductHandler.DeleteProductImage: repo.GetByID (and GetBySKUID); a product
\* without image is refused; os.Remove of the file; repo.Update replaces the
\* whole product with the copy that was read, the path taken off it
DeleteProductImage(db, w) ==
    IF w.pc = "repo.GetByID"
    THEN IF ~Has(db.products, w.target) THEN Goto(db, w, "repo.GetBySKUID")
         ELSE IF db.products[w.target].ImageURL = NoImage
         THEN Reply(db, [w EXCEPT !.read = db.products[w.target]], 400)
         ELSE Goto(db, [w EXCEPT !.read = db.products[w.target]], "os.Remove")
    ELSE IF w.pc = "repo.GetBySKUID" THEN Reply(db, w, 404)
    ELSE IF w.pc = "os.Remove"
    THEN Goto([db EXCEPT !.files = @ \ {w.read.ImageURL}], w, "repo.Update")
    ELSE IF Fails(w.fault, "doc", 1) THEN Reply(db, w, 500)
    ELSE Reply([db EXCEPT !.products =
                    ProductUpdate(@, w.read.ID, [w.read EXCEPT !.ImageURL = NoImage])],
               [w EXCEPT !.doc = [w.read EXCEPT !.ImageURL = NoImage]], 200)

\* ProductRepository.UpdateStock: UpdateOne with $set on stock; a filter that
\* matches nothing is no error
ProductUpdateStock(coll, id, stock) ==
    IF Has(coll, id) THEN [coll EXCEPT ![id].Stock = stock] ELSE coll

\* ProductRepository.UpdatePrice: UpdateOne with $set on price
ProductUpdatePrice(coll, id, price) ==
    IF Has(coll, id) THEN [coll EXCEPT ![id].Price = price] ELSE coll

\* ProductHandler.UpdateStock: repo.UpdateStock, repo.GetByID
UpdateStock(db, w) ==
    IF w.pc = "repo.UpdateStock"
    THEN IF Fails(w.fault, "doc", 1) THEN Reply(db, w, 500)
         ELSE Goto([db EXCEPT !.products = ProductUpdateStock(@, w.target, w.req.Stock)], w,
                   "repo.GetByID")
    ELSE IF ~Has(db.products, w.target) THEN Reply(db, w, 404)
    ELSE Reply(db, w, 200)

\* ProductHandler.UpdatePrice: repo.UpdatePrice, repo.GetByID
UpdateProductPrice(db, w) ==
    IF w.pc = "repo.UpdatePrice"
    THEN IF Fails(w.fault, "doc", 1) THEN Reply(db, w, 500)
         ELSE Goto([db EXCEPT !.products = ProductUpdatePrice(@, w.target, w.req.Price)], w,
                   "repo.GetByID")
    ELSE IF ~Has(db.products, w.target) THEN Reply(db, w, 404)
    ELSE Reply(db, w, 200)

-----------------------------------------------------------------------------
(* PurchaseHandler *)

Customers == {"c1"}
UnknownCustomer == "c9"

VATStockType(isVAT) == IF isVAT THEN StockTypeVAT ELSE StockTypeNonVAT

\* PurchaseRequest.ToPurchase: the ID stays the zero ObjectID
ToPurchase(req) ==
    [ID |-> ZeroID, PurchaseCode |-> <<>>, IsVAT |-> req.IsVAT, Items |-> req.Items]

PurchaseUpdateFromRequest(purchase, req) ==
    [purchase EXCEPT !.IsVAT = req.IsVAT, !.Items = req.Items]

\* the loop of updateProductData goes on to the item after w.i, or the
\* handler answers when the items are used up
updateProductDataNext(r, status) ==
    IF r.w.i >= Len(r.w.doc.Items) THEN Reply(r.db, r.w, status)
    ELSE Goto(r.db, [r.w EXCEPT !.i = @ + 1], "productRepo.GetByID")

\* PurchaseHandler.updateProductData at item w.i of the purchase w.doc:
\* productRepo.GetByID, productRepo.Update, RecordStockChange; an item whose
\* product is not found or not written is skipped
updateProductData(db, w, status) ==
    LET item == w.doc.Items[w.i]
        stockType == VATStockType(w.doc.IsVAT)
    IN  IF w.pc = "productRepo.GetByID"
        THEN IF ~Has(db.products, item.ProductID) THEN updateProductDataNext(Still(db, w), status)
             ELSE Goto(db, [w EXCEPT !.read = db.products[item.ProductID]], "productRepo.Update")
        ELSE IF w.pc = "productRepo.Update"
        THEN IF Fails(w.fault, "product", w.i) THEN updateProductDataNext(Still(db, w), status)
             ELSE Wrote(db, w,
                        ApplyStockAdjustment(
                            UpdatePrice(w.read, item.UnitPrice, w.doc.IsVAT, TRUE, w.now),
                            AdjustmentTypeAdd, stockType, item.Quantity),
                        AdjustmentTypeAdd, stockType, item.Quantity, ZeroID,
                        "RecordStockChange")
        ELSE LET saved == RecordStockChange(db, w.read, SourceTypePurchase, {w.doc.ID},
                                            AdjustmentTypeAdd, stockType, item.Quantity,
                                            Fails(w.fault, "audit", w.i))
             IN  updateProductDataNext(Still(saved.db, Filed(w, saved.id)), status)

\* PurchaseHandler.CreatePurchase: customerRepo.GetByID, generatePurchaseID,
\* which asks purchaseRepo.GetNextSequenceNumber, purchaseRepo.Create,
\* updateProductData.  InsertOne stores the document under a fresh _id; the
\* ID of the purchase the handler holds is not set.
CreatePurchase(db, w) ==
    IF w.pc = "customerRepo.GetByID"
    THEN IF w.req.CustomerID \notin Customers THEN Reply(db, w, 400)
         ELSE Goto(db, [w EXCEPT !.doc = ToPurchase(w.req)], "generatePurchaseID")
    ELSE IF w.pc = "generatePurchaseID"
    THEN Goto(db, [w EXCEPT !.stored = PurchaseCodes(db.purchases),
                            !.doc.PurchaseCode =
                                generatePurchaseID(PurchaseCodes(db.purchases), w.req.IsVAT,
                                                   w.now)],
              "purchaseRepo.Create")
    ELSE IF w.pc = "purchaseRepo.Create"
    THEN IF Fails(w.fault, "doc", 1) THEN Reply(db, w, 500)
         ELSE updateProductDataNext(
                  Still([db EXCEPT !.purchases = PurchaseCreate(@, db.nextID, w.doc),
                                   !.nextID = @ + 1],
                        [w EXCEPT !.i = 0]),
                  201)
    ELSE updateProductData(db, w, 201)

\* PurchaseHandler.UpdatePurchase: purchaseRepo.GetByID, customerRepo.GetByID,
\* purchaseRepo.Update, updateProductData
UpdatePurchase(db, w) ==
    IF w.pc = "purchaseRepo.GetByID"
    THEN IF ~Has(db.purchases, w.target) THEN Reply(db, w, 404)
         ELSE Goto(db, [w EXCEPT !.doc = db.purchases[w.target]], "customerRepo.GetByID")
    ELSE IF w.pc = "customerRepo.GetByID"
    THEN IF w.req.CustomerID \notin Customers THEN Reply(db, w, 400)
         ELSE Goto(db, [w EXCEPT !.doc = PurchaseUpdateFromRequest(@, w.req)],
                   "purchaseRepo.Update")
    ELSE IF w.pc = "purchaseRepo.Update"
    THEN IF Fails(w.fault, "doc", 1) THEN Reply(db, w, 500)
         ELSE updateProductDataNext(
                  Still([db EXCEPT !.purchases = ReplaceOne(@, w.target, w.doc)],
                        [w EXCEPT !.i = 0]),
                  200)
    ELSE updateProductData(db, w, 200)

\* PurchaseHandler.DeletePurchase: DeleteOne, whose count is not looked at
DeletePurchase(db, w) ==
    IF Fails(w.fault, "doc", 1) THEN Reply(db, w, 500)
    ELSE Reply([db EXCEPT !.purchases = Remove(@, w.target)], w, 200)

-----------------------------------------------------------------------------
(* SaleHandler *)

\* SaleRequest.ToSale: the ID stays the zero ObjectID
ToSale(req) == [ID |-> ZeroID, SaleCode |-> <<>>, IsVAT |-> req.IsVAT, Items |-> req.Items]

SaleUpdateFromRequest(sale, req) == [sale EXCEPT !.IsVAT = req.IsVAT, !.Items = req.Items]

\* the "cut stock" loop of CreateSale goes on to the item after w.i, or to
\* saleRepo.Create when the items are used up
createSaleItemsNext(r) ==
    IF r.w.i >= Len(r.w.doc.Items) THEN Goto(r.db, r.w, "saleRepo.Create")
    ELSE Goto(r.db, [r.w EXCEPT !.i = @ + 1], "productRepo.GetByID")

\* a cut loop that gives up when the audit record cannot be written
createSaleItemsFailingOnAudit(db, w) ==
    LET item == w.doc.Items[w.i]
        stockType == VATStockType(w.doc.IsVAT)
    IN  IF w.pc = "productRepo.GetByID"
        THEN IF ~Has(db.products, item.ProductID) THEN Reply(db, w, 400)
             ELSE Goto(db, [w EXCEPT !.read = db.products[item.ProductID]], "productRepo.Update")
        ELSE IF w.pc = "productRepo.Update"
        THEN IF Fails(w.fault, "product", w.i) THEN Reply(db, w, 500)
             ELSE Wrote(db, w,
                        ApplyStockAdjustment(
                            UpdatePrice(w.read, item.UnitPrice, w.doc.IsVAT, FALSE, w.now),
                            AdjustmentTypeReduce, stockType, item.Quantity),
                        AdjustmentTypeReduce, stockType, item.Quantity, ZeroID,
                        "RecordStockChange")
        ELSE LET saved == RecordStockChange(db, w.read, SourceTypeSale, {w.doc.ID},
                                            AdjustmentTypeReduce, stockType, item.Quantity,
                                            Fails(w.fault, "audit", w.i))
             IN  IF saved.err THEN Reply(saved.db, w, 500)
                 ELSE createSaleItemsNext(Still(saved.db, Filed(w, saved.id)))

\* the "cut stock" loop of CreateSale at item w.i of the sale w.doc:
\* productRepo.GetByID, productRepo.Update, RecordStockChange; the first item
\* whose product is not found or not written ends the request
createSaleItems(db, w) ==
    LET item == w.doc.Items[w.i]
        stockType == VATStockType(w.doc.IsVAT)
    IN  IF w.pc = "productRepo.GetByID"
        THEN IF ~Has(db.products, item.ProductID) THEN Reply(db, w, 400)
             ELSE Goto(db, [w EXCEPT !.read = db.products[item.ProductID]], "productRepo.Update")
        ELSE IF w.pc = "productRepo.Update"
        THEN IF Fails(w.fault, "product", w.i) THEN Reply(db, w, 500)
             ELSE Wrote(db, w,
                        ApplyStockAdjustment(
                            UpdatePrice(w.read, item.UnitPrice, w.doc.IsVAT, FALSE, w.now),
                            AdjustmentTypeReduce, stockType, item.Quantity),
                        AdjustmentTypeReduce, stockType, item.Quantity, ZeroID,
                        "RecordStockChange")
        ELSE LET saved == RecordStockChange(db, w.read, SourceTypeSale, {w.doc.ID},
                                            AdjustmentTypeReduce, stockType, item.Quantity,
                                            Fails(w.fault, "audit", w.i))
             IN  createSaleItemsNext(Still(saved.db, Filed(w, saved.id)))

\* SaleHandler.CreateSale: generateSaleID, which asks
\* saleRepo.GetNextSequenceNumber, the cut loop, saleRepo.Create.  The
\* requests carry no quotation code, so no quotation is looked up.
CreateSale(db, w) ==
    IF w.pc = "generateSaleID"
    THEN createSaleItemsNext(
             Still(db, [w EXCEPT !.stored = SaleCodes(db.sales),
                                 !.doc = [ToSale(w.req) EXCEPT !.SaleCode =
                                             generateSaleID(SaleCodes(db.sales), w.req.IsVAT,
                                                            w.now)],
                                 !.i = 0]))
    ELSE IF w.pc = "saleRepo.Create"
    THEN IF Fails(w.fault, "doc", 1) THEN Reply(db, w, 500)
         ELSE Reply([db EXCEPT !.sales = SaleCreate(@, db.nextID, w.doc),
                               !.nextID = @ + 1], w, 201)
    ELSE createSaleItems(db, w)

\* the "restore stock" loop goes on to the item after w.i, or is over
restoreSaleItemsNext(r) ==
    IF r.w.i >= Len(r.w.doc.Items) THEN Goto(r.db, r.w, "restored")
    ELSE Goto(r.db, [r.w EXCEPT !.i = @ + 1], "restore productRepo.GetByID")

\* the "restore stock" loop of UpdateSale and DeleteSale at item w.i of the
\* stored sale w.doc: productRepo.GetByID, productRepo.Update, whose result is
\* not looked at
restoreSaleItems(db, w) ==
    LET item == w.doc.Items[w.i]
    IN  IF w.pc = "restore productRepo.GetByID"
        THEN IF ~Has(db.products, item.ProductID) THEN restoreSaleItemsNext(Still(db, w))
             ELSE Goto(db, [w EXCEPT !.read = db.products[item.ProductID]],
                       "restore productRepo.Update")
        ELSE IF Fails(w.fault, "restore", w.i) THEN restoreSaleItemsNext(Still(db, w))
        ELSE restoreSaleItemsNext(
                 Wrote(db, w,
                       ApplyStockAdjustment(w.read, AdjustmentTypeAdd,
                                            VATStockType(w.doc.IsVAT), item.Quantity),
                       AdjustmentTypeAdd, VATStockType(w.doc.IsVAT), item.Quantity, ZeroID,
                       w.pc))

RestoreCalls == {"restore productRepo.GetByID", "restore productRepo.Update"}

\* the "cut stock" loop of UpdateSale goes on to the item after w.i, or to
\* saleRepo.Update when the items are used up
updateSaleItemsNext(r) ==
    IF r.w.i >= Len(r.w.doc.Items) THEN Goto(r.db, r.w, "saleRepo.Update")
    ELSE Goto(r.db, [r.w EXCEPT !.i = @ + 1], "productRepo.GetByID")

\* the "cut stock" loop of UpdateSale at item w.i: productRepo.GetByID,
\* productRepo.Update; no price is updated and no audit record is written
updateSaleItems(db, w) ==
    LET item == w.doc.Items[w.i]
    IN  IF w.pc = "productRepo.GetByID"
        THEN IF ~Has(db.products, item.ProductID) THEN Reply(db, w, 400)
             ELSE Goto(db, [w EXCEPT !.read = db.products[item.ProductID]], "productRepo.Update")
        ELSE IF Fails(w.fault, "product", w.i) THEN Reply(db, w, 500)
        ELSE updateSaleItemsNext(
                 Wrote(db, w,
                       ApplyStockAdjustment(w.read, AdjustmentTypeReduce,
                                            VATStockType(w.doc.IsVAT), item.Quantity),
                       AdjustmentTypeReduce, VATStockType(w.doc.IsVAT), item.Quantity, ZeroID,
                       w.pc))

\* UpdateSale once the restore loop is over: existingSale.UpdateFromRequest and
\* on to the cut loop
UpdateSaleRestored(r) ==
    IF r.w.pc # "restored" THEN r
    ELSE updateSaleItemsNext(Still(r.db, [r.w EXCEPT !.doc = SaleUpdateFromRequest(@, r.w.req),
                                                     !.i = 0]))

\* SaleHandler.UpdateSale: saleRepo.GetByID, the restore loop over the stored
\* items, the cut loop over the items of the request, saleRepo.Update
UpdateSale(db, w) ==
    IF w.pc = "saleRepo.GetByID"
    THEN IF ~Has(db.sales, w.target) THEN Reply(db, w, 404)
         ELSE UpdateSaleRestored(
                  restoreSaleItemsNext(Still(db, [w EXCEPT !.doc = db.sales[w.target],
                                                           !.i = 0])))
    ELSE IF w.pc \in RestoreCalls THEN UpdateSaleRestored(restoreSaleItems(db, w))
    ELSE IF w.pc = "saleRepo.Update"
    THEN IF Fails(w.fault, "doc", 1) THEN Reply(db, w, 500)
         ELSE Reply([db EXCEPT !.sales = ReplaceOne(@, w.target, w.doc)], w, 200)
    ELSE updateSaleItems(db, w)

\* DeleteSale once the restore loop is over: on to saleRepo.Delete
DeleteSaleRestored(r) == IF r.w.pc # "restored" THEN r ELSE Goto(r.db, r.w, "saleRepo.Delete")

\* SaleHandler.DeleteSale: saleRepo.GetByID, the restore loop, saleRepo.Delete
DeleteSale(db, w) ==
    IF w.pc = "saleRepo.GetByID"
    THEN IF ~Has(db.sales, w.target) THEN Reply(db, w, 404)
         ELSE DeleteSaleRestored(
                  restoreSaleItemsNext(Still(db, [w EXCEPT !.doc = db.sales[w.target],
                                                           !.i = 0])))
    ELSE IF w.pc \in RestoreCalls THEN DeleteSaleRestored(restoreSaleItems(db, w))
    ELSE IF Fails(w.fault, "doc", 1) THEN Reply(db, w, 500)
    ELSE Reply([db EXCEPT !.sales = Remove(@, w.target)], w, 204)

-----------------------------------------------------------------------------
(* MigrationHandler *)

\* MigrationHandler.getFieldValue: the cell of the column without the spaces
\* around it
getFieldValue(cell) == TrimSpace(cell)

\* MigrationHandler.parseInt: an empty field is 0, any other field is read by
\* strconv.Atoi without the spaces around it
parseInt(field) == IF field = <<>> THEN [ok |-> TRUE, n |-> 0] ELSE Atoi(TrimSpace(field))

\* strconv.ParseFloat(s, 64) on the texts the unit price columns of the files
\* hold, the value in cents: a number may carry a sign and a decimal exponent,
\* a comma is no part of a number, and the empty text is no number
UnitPriceTexts ==
    <<[s |-> <<"1", ".", "0", "0">>, ok |-> TRUE, n |-> 100],
      [s |-> <<"1">>, ok |-> TRUE, n |-> 100],
      [s |-> <<"+", "5">>, ok |-> TRUE, n |-> 500],
      [s |-> <<"1", "e", "2">>, ok |-> TRUE, n |-> 10000],
      [s |-> <<"1", ",", "0", "0">>, ok |-> FALSE, n |-> 0],
      [s |-> <<>>, ok |-> FALSE, n |-> 0]>>
ParseFloat(s) ==
    LET read == UnitPriceTexts[CHOOSE k \in DOMAIN UnitPriceTexts : UnitPriceTexts[k].s = s]
    IN  [ok |-> read.ok, n |-> read.n]

\* MigrationHandler.parseFloat: an empty field is 0, any other field is read by
\* strconv.ParseFloat without the spaces around it
parseFloat(field) == IF field = <<>> THEN [ok |-> TRUE, n |-> 0] ELSE ParseFloat(TrimSpace(field))

\* the product made of one data row of parseAndMigrateProductCSV, with the
\* code of the migration generator; getFieldValue takes the spaces off a
\* field, and the rows carry no price and no stock column
RowProduct(row) ==
    [ID |-> NilProductID, SKUID |-> getFieldValue(row.SKUID),
     Code |-> generateProductCode(getFieldValue(row.Category), getFieldValue(row.Size),
                                  getFieldValue(row.Color)),
     Category |-> getFieldValue(row.Category), Size |-> getFieldValue(row.Size),
     Color |-> getFieldValue(row.Color), ImageURL |-> NoImage, Price |-> ZeroPrice,
     Stock |-> ZeroStock]

\* the first repository call of a row: a row without category makes none
FirstCall(row) ==
    IF RowProduct(row).Category = <<>> THEN "none"
    ELSE IF RowProduct(row).SKUID # <<>> THEN "GetBySKUID"
    ELSE "getAllSKUIDs"

\* one data row of parseAndMigrateProductCSV: a row without category fails;
\* productRepo.GetBySKUID for a row that carries a SKU id, which fails the
\* row when a product is found; ProductRepository.Create
parseAndMigrateProductCSV(db, w) ==
    IF w.pc = "none" THEN Reply(db, w, RowFailed)
    ELSE IF w.pc = "GetBySKUID"
    THEN IF GetBySKUID(db.products, RowProduct(w.req).SKUID) # <<>>
         THEN Reply(db, w, RowFailed)
         ELSE Goto(db, w, "getAllSKUIDs")
    ELSE IF w.pc = "getAllSKUIDs"
    THEN Goto(db, [w EXCEPT !.read = getAllSKUIDs(db.products)], "InsertOne")
    ELSE IF Fails(w.fault, "doc", 1) THEN Reply(db, w, RowFailed)
    ELSE Reply([db EXCEPT !.products =
                              Put(@, FreshProductIDs[db.nextID],
                                  ProductCreate(RowProduct(w.req), w.read,
                                                FreshProductIDs[db.nextID])),
                          !.nextID = @ + 1],
               [w EXCEPT !.doc = ProductCreate(RowProduct(w.req), w.read,
                                               FreshProductIDs[db.nextID])],
               RowSucceeded)

\* the stock steps of updateProductsFromSale for one item
SaleStockUpdate(stock, isVAT, quantity) ==
    LET b == IF isVAT THEN "VAT" ELSE "NonVAT"
        cut == [stock EXCEPT ![b].Sold = @ + quantity,
                             ![b].Remaining = @ - quantity,
                             !.ActualStock = @ - quantity]
    IN  [cut EXCEPT !.ActualStock = IF @ < 0 THEN 0 ELSE @,
                    !.VAT.Remaining = IF @ < 0 THEN 0 ELSE @,
                    !.NonVAT.Remaining = IF @ < 0 THEN 0 ELSE @]

\* the stock steps of updateProductsFromPurchase for one item
PurchaseStockUpdate(stock, isVAT, quantity) ==
    LET b == IF isVAT THEN "VAT" ELSE "NonVAT"
    IN  [stock EXCEPT ![b].Purchased = @ + quantity,
                      ![b].Remaining = @ + quantity,
                      !.ActualStock = @ + quantity]

\* the customers stored, by their code
CustomerCodes == {"CU-001"}
UnknownCustomerCode == "CU-009"

\* createSaleFromGroup / createPurchaseFromGroup, where w.doc is the document
\* with the items made so far: customerRepo.GetByCustomerCode, then row by
\* row productRepo.GetByCode, parseInt of the quantity and parseFloat of the
\* unit price, each on the cell as getFieldValue returns it; the first row
\* whose product is not found or whose quantity or unit price is no number
\* fails the group.
createFromGroup(db, w, pc) ==
    IF w.pc = "customerRepo.GetByCustomerCode"
    THEN IF w.req.CustomerCode \notin CustomerCodes THEN Reply(db, w, RowFailed)
         ELSE Goto(db, [w EXCEPT !.i = 1], "productRepo.GetByCode")
    ELSE LET row == w.req.Rows[w.i]
             productCode == getFieldValue(row.ProductCode)
             quantityStr == getFieldValue(row.Quantity)
             unitPriceStr == getFieldValue(row.UnitPrice)
             found == GetByCode(db.products, productCode)
         IN  IF found = <<>> THEN Reply(db, w, RowFailed)
             ELSE IF ~parseInt(quantityStr).ok THEN Reply(db, w, RowFailed)
             ELSE IF ~parseFloat(unitPriceStr).ok THEN Reply(db, w, RowFailed)
             ELSE Goto(db,
                       [w EXCEPT !.doc.Items =
                                     Append(@, [ProductID |-> found[1],
                                                Quantity |-> parseInt(quantityStr).n,
                                                UnitPrice |-> parseFloat(unitPriceStr).n]),
                                 !.i = IF w.i >= Len(w.req.Rows) THEN @ ELSE @ + 1],
                       IF w.i >= Len(w.req.Rows) THEN pc ELSE "productRepo.GetByCode")

\* the loop of updateProductsFromSale / updateProductsFromPurchase goes on to
\* the item after w.i, or the group is counted
updateProductsNext(r) ==
    IF r.w.i >= Len(r.w.doc.Items) THEN Reply(r.db, r.w, RowSucceeded)
    ELSE Goto(r.db, [r.w EXCEPT !.i = @ + 1], "productRepo.GetByID")

\* MigrationHandler.updateProductsFromSale at item w.i of the sale w.doc:
\* productRepo.GetByID, productRepo.Update; the first error ends the loop and
\* is reported, the group counts as taken in
updateProductsFromSale(db, w) ==
    LET item == w.doc.Items[w.i]
    IN  IF w.pc = "productRepo.GetByID"
        THEN IF ~Has(db.products, item.ProductID) THEN Reply(db, w, RowSucceeded)
             ELSE Goto(db, [w EXCEPT !.read = db.products[item.ProductID]], "productRepo.Update")
        ELSE IF Fails(w.fault, "product", w.i) THEN Reply(db, w, RowSucceeded)
        ELSE updateProductsNext(
                 Wrote(db, w,
                       [UpdatePrice(w.read, item.UnitPrice, w.doc.IsVAT, FALSE, w.now)
                           EXCEPT !.Stock = SaleStockUpdate(@, w.doc.IsVAT, item.Quantity)],
                       AdjustmentTypeReduce, VATStockType(w.doc.IsVAT), item.Quantity, ZeroID,
                       w.pc))

\* MigrationHandler.updateProductsFromPurchase at item w.i of the purchase w.doc
updateProductsFromPurchase(db, w) ==
    LET item == w.doc.Items[w.i]
    IN  IF w.pc = "productRepo.GetByID"
        THEN IF ~Has(db.products, item.ProductID) THEN Reply(db, w, RowSucceeded)
             ELSE Goto(db, [w EXCEPT !.read = db.products[item.ProductID]], "productRepo.Update")
        ELSE IF Fails(w.fault, "product", w.i) THEN Reply(db, w, RowSucceeded)
        ELSE updateProductsNext(
                 Wrote(db, w,
                       [UpdatePrice(w.read, item.UnitPrice, w.doc.IsVAT, TRUE, w.now)
                           EXCEPT !.Stock = PurchaseStockUpdate(@, w.doc.IsVAT, item.Quantity)],
                       AdjustmentTypeAdd, VATStockType(w.doc.IsVAT), item.Quantity, ZeroID,
                       w.pc))

\* the sale createSaleFromGroup starts on: the code of the salecode column,
\* or the generated one when the column is empty; the code is made after the
\* rows are read and reads nothing
SaleOfGroup(group, now) ==
    [ID |-> ZeroID,
     SaleCode |-> IF getFieldValue(group.Code) = <<>> THEN generateSaleCode(group.IsVAT, now)
                  ELSE getFieldValue(group.Code),
     IsVAT |-> group.IsVAT, Items |-> <<>>]

\* the purchase createPurchaseFromGroup starts on
PurchaseOfGroup(group, now) ==
    [ID |-> ZeroID,
     PurchaseCode |-> IF getFieldValue(group.Code) = <<>>
                      THEN generatePurchaseCode(group.IsVAT, now)
                      ELSE getFieldValue(group.Code),
     IsVAT |-> group.IsVAT, Items |-> <<>>]

\* one group of parseAndMigrateSaleCSV: createSaleFromGroup, saleRepo.Create
\* and updateProductsFromSale
parseAndMigrateSaleCSV(db, w) ==
    IF w.pc = "customerRepo.GetByCustomerCode"
    THEN createFromGroup(db, [w EXCEPT !.doc = SaleOfGroup(w.req, w.now)], "saleRepo.Create")
    ELSE IF w.pc = "productRepo.GetByCode" THEN createFromGroup(db, w, "saleRepo.Create")
    ELSE IF w.pc = "saleRepo.Create"
    THEN IF Fails(w.fault, "doc", 1) THEN Reply(db, w, RowFailed)
         ELSE updateProductsNext(
                  Still([db EXCEPT !.sales = SaleCreate(@, db.nextID, w.doc),
                                   !.nextID = @ + 1],
                        [w EXCEPT !.i = 0]))
    ELSE updateProductsFromSale(db, w)

\* one group of parseAndMigratePurchaseCSV: createPurchaseFromGroup,
\* purchaseRepo.Create and updateProductsFromPurchase
parseAndMigratePurchaseCSV(db, w) ==
    IF w.pc = "customerRepo.GetByCustomerCode"
    THEN createFromGroup(db, [w EXCEPT !.doc = PurchaseOfGroup(w.req, w.now)],
                         "purchaseRepo.Create")
    ELSE IF w.pc = "productRepo.GetByCode" THEN createFromGroup(db, w, "purchaseRepo.Create")
    ELSE IF w.pc = "purchaseRepo.Create"
    THEN IF Fails(w.fault, "doc", 1) THEN Reply(db, w, RowFailed)
         ELSE updateProductsNext(
                  Still([db EXCEPT !.purchases = PurchaseCreate(@, db.nextID, w.doc),
                                   !.nextID = @ + 1],
                        [w EXCEPT !.i = 0]))
    ELSE updateProductsFromPurchase(db, w)

-----------------------------------------------------------------------------
(* Requests *)

Item(pid, q, price) == [ProductID |-> pid, Quantity |-> q, UnitPrice |-> price]

\* item lists of a purchase or sale request: one item, two items of two
\* products, and a second item whose product id resolves to nothing
OneItem == <<Item("p1", 1, 100)>>
TwoItems == <<Item("p2", 2, 100), Item("p1", 1, 100)>>
LostItem == <<Item("p1", 2, 100), Item(UnknownProduct, 1, 100)>>

Request(customer, isVAT, items) ==
    [CustomerID |-> customer, IsVAT |-> isVAT, Items |-> items]

SaleRequests ==
    {Request("c1", TRUE, OneItem), Request("c1", FALSE, OneItem),
     Request("c1", TRUE, TwoItems), Request("c1", FALSE, LostItem)}
BadPurchaseRequest == Request(UnknownCustomer, TRUE, OneItem)
PurchaseRequests == SaleRequests

AdjustRequest(t, s, q) == [AdjustmentType |-> t, StockType |-> s, Quantity |-> q]
ValidAdjustRequests ==
    {AdjustRequest(t, s, 2) : t \in AdjustmentTypes, s \in StockTypes}
InvalidAdjustRequests ==
    {AdjustRequest(AdjustmentTypeAdd, StockTypeVAT, 0),
     AdjustRequest("set", StockTypeVAT, 1),
     AdjustRequest(AdjustmentTypeAdd, "total", 1)}

\* the body of PUT /products/{id}, PATCH /products/{id}/stock and
\* PATCH /products/{id}/price: a stock and a price typed in by hand
TypedStock == [VAT |-> StockInfo(0, 0, 99), NonVAT |-> StockInfo(0, 0, 0), ActualStock |-> 7]
TypedPrice == [ZeroPrice EXCEPT !.SaleVAT.Latest = 12000]
ProductRequest ==
    [Category |-> <<"B", "o", "x">>, Size |-> <<"S">>, Color |-> <<"R", "e", "d">>,
     ImageURL |-> NoImage, Price |-> TypedPrice, Stock |-> TypedStock]

\* the file of POST /products/{id}/image: a picture, a document, and a
\* picture that is too large
ImageFile(signature, size, ext) == [Signature |-> signature, Size |-> size, Ext |-> ext]
ImageFiles ==
    {ImageFile("PNG", 2048, ".png"), ImageFile("PDF", 2048, ".pdf"),
     ImageFile("JPEG", MaxImageSize + 1, ".jpg")}
\* time.Now().Unix() of an upload
UploadClocks == {1728100000}
\* the image p1 carries when the server starts
SeedImage == ImagePath("p1", 1727000000, ".jpg")
StockUpdateRequest == [Stock |-> TypedStock]
PriceUpdateRequest == [Price |-> TypedPrice]

\* The fault plans of a request: no write fails, or the write of the request's
\* own document fails, or the write of the audit record of the first item
\* fails, or the write of the product of the last item fails.
DocFaults == {NoFault, Fault("doc", 1)}
CreateFaults(req) ==
    DocFaults \cup {Fault("audit", 1), Fault("product", Len(req.Items))}
\* for a sale that is updated or deleted, the write that puts back the stock
\* of its first stored item may fail as well
RestoreFaults == {Fault("restore", 1)}

\* an id under which nothing is stored yet
UnknownID == nextID

-----------------------------------------------------------------------------
(* The state machine *)

DB == [products |-> products, purchases |-> purchases, sales |-> sales,
       adjustments |-> adjustments, nextID |-> nextID, quotations |-> quotations,
       files |-> files]

\* the goroutines that serve a request
Busy == {w \in DOMAIN workers : workers[w].pc # "idle"}

\* a new request is served by the first goroutine that is free
Free(self) ==
    /\ workers[self].pc = "idle"
    /\ self = "w2" => workers["w1"].pc # "idle"

\* the requests taken so far, and how many are taken in one behaviour: a
\* server that runs one request at a time is followed for longer
Started == Len(log) + Cardinality(Busy)
Budget == IF DOMAIN workers = {"w1"} THEN MaxSerialOps ELSE MaxOps

\* the request as it arrives: before are the collections it finds, alone says
\* that no other request was in flight while it was
Arrive(handler, target, req, fault, now, pc) ==
    [pc |-> pc, handler |-> handler, target |-> target, req |-> req, fault |-> fault,
     now |-> now, i |-> 1, doc |-> NoDoc, read |-> NoDoc, stored |-> {}, applied |-> <<>>,
     status |-> 0, before |-> DB, alone |-> Busy = {}]

\* applied are the ledger calls of the request whose product write returned no
\* error, in order; stored are the codes GetNextSequenceNumber found; after
\* are the collections at the time of the answer
Entry(w, db) ==
    [handler |-> w.handler, target |-> w.target, req |-> w.req, fault |-> w.fault,
     now |-> w.now, status |-> w.status, before |-> w.before, after |-> db,
     doc |-> w.doc, read |-> w.read, stored |-> w.stored, applied |-> w.applied,
     alone |-> w.alone]

\* one step r of the request served by self was made: the collections are as
\* the repository call left them, and an answer is written to the history
Commit(self, r) ==
    /\ products' = r.db.products
    /\ purchases' = r.db.purchases
    /\ sales' = r.db.sales
    /\ adjustments' = r.db.adjustments
    /\ nextID' = r.db.nextID
    /\ quotations' = r.db.quotations
    /\ files' = r.db.files
    /\ config' = config
    /\ workers' = [v \in DOMAIN workers |->
                      IF v = self THEN (IF r.w.pc = "done" THEN Idle ELSE r.w)
                      ELSE IF workers[self].pc = "idle" /\ workers[v].pc # "idle"
                      THEN [workers[v] EXCEPT !.alone = FALSE]
                      ELSE workers[v]]
    /\ log' = IF r.w.pc = "done" THEN Append(log, Entry(r.w, r.db)) ELSE log
    /\ UNCHANGED ledger

\* a request arrives at self
Take(self) == Free(self) /\ Started < Budget
\* an image request arrives at self: a server that has served image requests
\* only is followed for longer
ImageHandlers == {"UploadProductImage", "DeleteProductImage"}
TakeImage(self) ==
    \/ Take(self)
    \/ /\ Free(self)
       /\ Started < MaxImageOps
       /\ \A i \in DOMAIN log : log[i].handler \in ImageHandlers
       /\ \A w \in Busy : workers[w].handler \in ImageHandlers
\* self serves a request of the handler
Serving(self, handler) == workers[self].pc # "idle" /\ workers[self].handler = handler

\* the stock of the products when the server starts: none, or some
InitStocks ==
    {ZeroStock,
     [VAT |-> StockInfo(5, 2, 3), NonVAT |-> StockInfo(1, 1, 0), ActualStock |-> 3]}

\* no request is in flight
NoWorkers == [w \in {} |-> NoDoc]

\* the two products with the stock: p1 has a picture, p2 has none
Catalogue(stock) ==
    [p \in ProductIDs |->
        IF p = "p1" THEN [NewProduct(p, stock) EXCEPT !.ImageURL = SeedImage]
        ELSE NewProduct(p, stock)]

\* the collections when the server starts on a database with two products
Start ==
    /\ config = NoConfig
    /\ \E st \in InitStocks : products = Catalogue(st)
    /\ purchases = EmptyColl
    /\ sales = EmptyColl
    /\ adjustments = EmptyColl
    /\ nextID = 1
    /\ log = <<>>
    /\ quotations = <<>>
    /\ files = {SeedImage}

\* the ledger under test on its own: a product and the calls made on it
Ledger(stock) == [product |-> NewProduct("p1", stock), calls |-> <<>>]

Init ==
    /\ Start
    /\ workers = [w \in Workers |-> Idle]
    /\ ledger = Ledger(ZeroStock)

\* Every action is a handler: a request arrives and makes its first
\* repository call, or a request in flight makes its next one.
DoAdjustStock ==
    \E self \in DOMAIN workers :
        \/ /\ Take(self)
           /\ \/ \E pid \in DOMAIN products, req \in ValidAdjustRequests,
                    fault \in {NoFault, Fault("audit", 1)} :
                     Commit(self, AdjustStock(DB, Arrive("AdjustStock", pid, req, fault, NoDoc,
                                                         "productRepo.GetByID")))
              \/ \E pid \in DOMAIN products,
                    req \in {AdjustRequest(AdjustmentTypeAdd, StockTypeVAT, 2)} :
                     Commit(self, AdjustStock(DB, Arrive("AdjustStock", pid, req,
                                                         Fault("product", 1), NoDoc,
                                                         "productRepo.GetByID")))
              \/ \E req \in InvalidAdjustRequests :
                     Commit(self, AdjustStock(DB, Arrive("AdjustStock", "p1", req, NoFault, NoDoc,
                                                         "productRepo.GetByID")))
              \/ \E req \in {AdjustRequest(AdjustmentTypeAdd, StockTypeVAT, 2)} :
                     Commit(self, AdjustStock(DB, Arrive("AdjustStock", UnknownProduct, req,
                                                         NoFault, NoDoc, "productRepo.GetByID")))
        \/ /\ Serving(self, "AdjustStock")
           /\ Commit(self, AdjustStock(DB, workers[self]))

DoDeleteStockAdjustment ==
    \E self \in DOMAIN workers :
        \/ /\ Take(self)
           /\ \E id \in (DOMAIN adjustments) \cup {UnknownID},
                 fault \in {NoFault, Fault("product", 1), Fault("doc", 1)} :
                  /\ id = UnknownID => fault = NoFault
                  /\ Commit(self, DeleteStockAdjustment(
                                      DB, Arrive("DeleteStockAdjustment", id, <<>>, fault, NoDoc,
                                                 "adjustmentRepo.GetByID")))
        \/ /\ Serving(self, "DeleteStockAdjustment")
           /\ Commit(self, DeleteStockAdjustment(DB, workers[self]))

DoDeleteProduct ==
    \E self \in DOMAIN workers :
        /\ Take(self)
        /\ \E pid \in DOMAIN products, fault \in DocFaults :
              Commit(self, DeleteProduct(DB, Arrive("DeleteProduct", pid, <<>>, fault, NoDoc,
                                                    "repo.Delete")))

DoCreateProduct ==
    \E self \in DOMAIN workers :
        \/ /\ Take(self)
           /\ \E fault \in DocFaults :
                  Commit(self, CreateProduct(DB, Arrive("CreateProduct", NilProductID,
                                                        ProductRequest, fault, NoDoc,
                                                        "getAllSKUIDs")))
        \/ /\ Serving(self, "CreateProduct")
           /\ Commit(self, CreateProduct(DB, workers[self]))

DoUploadProductImage ==
    \E self \in DOMAIN workers :
        \/ /\ TakeImage(self)
           /\ \E pid \in (DOMAIN products) \cup {UnknownProduct}, file \in ImageFiles,
                 fault \in DocFaults, now \in UploadClocks :
                  /\ (pid = UnknownProduct \/ file # ImageFile("PNG", 2048, ".png"))
                        => fault = NoFault
                  /\ file # ImageFile("PNG", 2048, ".png") => pid = "p1"
                  /\ Commit(self, UploadProductImage(DB, Arrive("UploadProductImage", pid, file,
                                                                fault, now, "os.Create")))
        \/ /\ Serving(self, "UploadProductImage")
           /\ Commit(self, UploadProductImage(DB, workers[self]))

DoDeleteProductImage ==
    \E self \in DOMAIN workers :
        \/ /\ TakeImage(self)
           /\ \E pid \in (DOMAIN products) \cup {UnknownProduct}, fault \in DocFaults :
                  /\ pid = UnknownProduct => fault = NoFault
                  /\ Commit(self, DeleteProductImage(DB, Arrive("DeleteProductImage", pid, <<>>,
                                                                fault, NoDoc, "repo.GetByID")))
        \/ /\ Serving(self, "DeleteProductImage")
           /\ Commit(self, DeleteProductImage(DB, workers[self]))

DoUpdateProduct ==
    \E self \in DOMAIN workers :
        \/ /\ Take(self)
           /\ \E pid \in (DOMAIN products) \cup {UnknownProduct}, fault \in DocFaults :
                  /\ pid = UnknownProduct => fault = NoFault
                  /\ Commit(self, UpdateProduct(DB, Arrive("UpdateProduct", pid, ProductRequest,
                                                           fault, NoDoc, "repo.GetByID")))
        \/ /\ Serving(self, "UpdateProduct")
           /\ Commit(self, UpdateProduct(DB, workers[self]))

DoUpdateStock ==
    \E self \in DOMAIN workers :
        \/ /\ Take(self)
           /\ \E pid \in (DOMAIN products) \cup {UnknownProduct}, fault \in DocFaults :
                  /\ pid = UnknownProduct => fault = NoFault
                  /\ Commit(self, UpdateStock(DB, Arrive("UpdateStock", pid, StockUpdateRequest,
                                                         fault, NoDoc, "repo.UpdateStock")))
        \/ /\ Serving(self, "UpdateStock")
           /\ Commit(self, UpdateStock(DB, workers[self]))

DoUpdatePrice ==
    \E self \in DOMAIN workers :
        \/ /\ Take(self)
           /\ \E pid \in (DOMAIN products) \cup {UnknownProduct}, fault \in DocFaults :
                  /\ pid = UnknownProduct => fault = NoFault
                  /\ Commit(self, UpdateProductPrice(DB, Arrive("UpdatePrice", pid, PriceUpdateRequest,
                                                                fault, NoDoc, "repo.UpdatePrice")))
        \/ /\ Serving(self, "UpdatePrice")
           /\ Commit(self, UpdateProductPrice(DB, workers[self]))

DoCreatePurchase ==
    \E self \in DOMAIN workers :
        \/ /\ Take(self)
           /\ \E req \in PurchaseRequests \cup {BadPurchaseRequest}, now \in Clocks :
                \E fault \in CreateFaults(req) :
                  /\ req = BadPurchaseRequest => fault = NoFault
                  /\ Commit(self, CreatePurchase(DB, Arrive("CreatePurchase", ZeroID, req, fault,
                                                            now, "customerRepo.GetByID")))
        \/ /\ Serving(self, "CreatePurchase")
           /\ Commit(self, CreatePurchase(DB, workers[self]))

DoUpdatePurchase ==
    \E self \in DOMAIN workers :
        \/ /\ Take(self)
           /\ \E id \in (DOMAIN purchases) \cup {UnknownID},
                 req \in PurchaseRequests \cup {BadPurchaseRequest}, now \in Clocks :
                \E fault \in CreateFaults(req) :
                  /\ req = BadPurchaseRequest => fault = NoFault
                  /\ id = UnknownID => req = Request("c1", TRUE, OneItem) /\ fault = NoFault
                  /\ Commit(self, UpdatePurchase(DB, Arrive("UpdatePurchase", id, req, fault, now,
                                                            "purchaseRepo.GetByID")))
        \/ /\ Serving(self, "UpdatePurchase")
           /\ Commit(self, UpdatePurchase(DB, workers[self]))

DoDeletePurchase ==
    \E self \in DOMAIN workers :
        /\ Take(self)
        /\ \E id \in (DOMAIN purchases) \cup {UnknownID}, fault \in DocFaults :
              /\ id = UnknownID => fault = NoFault
              /\ Commit(self, DeletePurchase(DB, Arrive("DeletePurchase", id, <<>>, fault, NoDoc,
                                                        "purchaseRepo.Delete")))

DoCreateSale ==
    \E self \in DOMAIN workers :
        \/ /\ Take(self)
           /\ \E req \in SaleRequests, now \in Clocks :
                \E fault \in CreateFaults(req) :
                  Commit(self, CreateSale(DB, Arrive("CreateSale", ZeroID, req, fault, now,
                                                     "generateSaleID")))
        \/ /\ Serving(self, "CreateSale")
           /\ Commit(self, CreateSale(DB, workers[self]))

DoUpdateSale ==
    \E self \in DOMAIN workers :
        \/ /\ Take(self)
           /\ \E id \in (DOMAIN sales) \cup {UnknownID}, req \in SaleRequests :
                \E fault \in (CreateFaults(req) \ {Fault("audit", 1)}) \cup RestoreFaults :
                  /\ id = UnknownID => req = Request("c1", TRUE, OneItem) /\ fault = NoFault
                  /\ Commit(self, UpdateSale(DB, Arrive("UpdateSale", id, req, fault, NoDoc,
                                                        "saleRepo.GetByID")))
        \/ /\ Serving(self, "UpdateSale")
           /\ Commit(self, UpdateSale(DB, workers[self]))

DoDeleteSale ==
    \E self \in DOMAIN workers :
        \/ /\ Take(self)
           /\ \E id \in (DOMAIN sales) \cup {UnknownID}, fault \in DocFaults \cup RestoreFaults :
                  /\ id = UnknownID => fault = NoFault
                  /\ Commit(self, DeleteSale(DB, Arrive("DeleteSale", id, <<>>, fault, NoDoc,
                                                        "saleRepo.GetByID")))
        \/ /\ Serving(self, "DeleteSale")
           /\ Commit(self, DeleteSale(DB, workers[self]))

Next ==
    \/ DoAdjustStock
    \/ DoDeleteStockAdjustment
    \/ DoCreateProduct
    \/ DoDeleteProduct
    \/ DoUpdateProduct
    \/ DoUploadProductImage
    \/ DoDeleteProductImage
    \/ DoUpdateStock
    \/ DoUpdatePrice
    \/ DoCreatePurchase
    \/ DoUpdatePurchase
    \/ DoDeletePurchase
    \/ DoCreateSale
    \/ DoUpdateSale
    \/ DoDeleteSale

Spec == Init /\ [][Next]_vars

-----------------------------------------------------------------------------
(* SerialSpec: one request at a time, three in a row, of the stock adjustment *)
(* handlers and the deletion of a product                                     *)

SerialInit ==
    /\ Start
    /\ workers = [w \in {"w1"} |-> Idle]
    /\ ledger = Ledger(ZeroStock)

SerialNext ==
    \/ DoAdjustStock
    \/ DoDeleteStockAdjustment
    \/ DoDeleteProduct

SerialSpec == SerialInit /\ [][SerialNext]_vars


\* SaleSpec: one request at a time, three in a row, of the sale handlers
SaleNext ==
    \/ DoCreateSale
    \/ DoUpdateSale
    \/ DoDeleteSale

SaleSpec == SerialInit /\ [][SaleNext]_vars


-----------------------------------------------------------------------------
(* The ledger function on its own: LedgerSpec calls ApplyStockAdjustment on one
   product, MaxCalls times, with any adjustment type, stock type and quantity *)

LedgerQuantities == {1, 10, 15}
LedgerStocks ==
    {ZeroStock,
     [VAT |-> StockInfo(7, 3, 4), NonVAT |-> StockInfo(2, 2, 0), ActualStock |-> 5]}

LedgerInit ==
    /\ Start
    /\ workers = NoWorkers
    /\ ledger \in {Ledger(st) : st \in LedgerStocks}

LedgerApply ==
    \E t \in AdjustmentTypes, st \in StockTypes, q \in LedgerQuantities :
        /\ Len(ledger.calls) < MaxCalls
        /\ LET updated == ApplyStockAdjustment(ledger.product, t, st, q)
           IN  ledger' = [product |-> updated,
                          calls |-> Append(ledger.calls,
                                           Call(ledger.product, t, st, q, updated, ZeroID, ZeroID))]
        /\ UNCHANGED <<products, purchases, sales, adjustments, nextID, log, workers, quotations, files,
                     config>>

LedgerNext == LedgerApply

LedgerSpec == LedgerInit /\ [][LedgerNext]_vars

-----------------------------------------------------------------------------
(* Claims about the ledger function *)

LedgerCalls == ledger.calls

OtherBucket(f) == IF f = "VAT" THEN "NonVAT" ELSE "VAT"
BucketOf(stockType) == IF stockType = StockTypeVAT THEN "VAT" ELSE "NonVAT"

\* the call added q to the bucket's purchased and remaining and to the actual
\* stock, and left the bucket's sold and the other bucket alone
AddedToBucket(c) ==
    LET f == BucketOf(c.StockType)
    IN  /\ c.after[f].Purchased = c.before[f].Purchased + c.Quantity
        /\ c.after[f].Remaining = c.before[f].Remaining + c.Quantity
        /\ c.after.ActualStock = c.before.ActualStock + c.Quantity
        /\ c.after[f].Sold = c.before[f].Sold
        /\ c.after[OtherBucket(f)] = c.before[OtherBucket(f)]

\* the call added q to the bucket's sold and took q from its remaining and from
\* the actual stock, whatever their values
ReducedBucket(c) ==
    LET f == BucketOf(c.StockType)
    IN  /\ c.after[f].Sold = c.before[f].Sold + c.Quantity
        /\ c.after[f].Remaining = c.before[f].Remaining - c.Quantity
        /\ c.after.ActualStock = c.before.ActualStock - c.Quantity
        /\ c.after[f].Purchased = c.before[f].Purchased
        /\ c.after[OtherBucket(f)] = c.before[OtherBucket(f)]

\* C1: ApplyStockAdjustment(add, vat, q) raises the VAT bucket's purchased and
\* remaining and the actual stock by q each and leaves the VAT bucket's sold and
\* the whole non-VAT bucket unchanged; add on nonvat is the same on the other bucket.
C1_AddRaisesBucketAndActual ==
    \A i \in DOMAIN LedgerCalls :
        LET c == LedgerCalls[i]
        IN  (c.AdjustmentType = AdjustmentTypeAdd /\ c.StockType # StockTypeActualStock)
                => AddedToBucket(c)

C1_Witness ==
    \E i, j \in DOMAIN LedgerCalls :
        /\ LedgerCalls[i].AdjustmentType = AdjustmentTypeAdd
        /\ LedgerCalls[i].StockType = StockTypeVAT
        /\ LedgerCalls[i].after.VAT.Remaining = LedgerCalls[i].before.VAT.Remaining + 10
        /\ LedgerCalls[j].AdjustmentType = AdjustmentTypeAdd
        /\ LedgerCalls[j].StockType = StockTypeNonVAT
        /\ LedgerCalls[j].after.NonVAT.Purchased = LedgerCalls[j].before.NonVAT.Purchased + 15

\* C2: a reduce never clamps and never fails: on vat / nonvat it raises the
\* bucket's sold by q and lowers its remaining and the actual stock by q; on
\* actualstock it lowers the actual stock by q and nothing else.  Adding 10 and
\* then reducing 15 on a zero VAT bucket ends with remaining -5, actual stock -5,
\* purchased 10 and sold 15.
C2_ReduceNeverClamps ==
    /\ \A i \in DOMAIN LedgerCalls :
        LET c == LedgerCalls[i]
        IN  c.AdjustmentType = AdjustmentTypeReduce =>
                IF c.StockType = StockTypeActualStock
                THEN /\ c.after.ActualStock = c.before.ActualStock - c.Quantity
                     /\ c.after.VAT = c.before.VAT
                     /\ c.after.NonVAT = c.before.NonVAT
                ELSE ReducedBucket(c)
    /\ (/\ Len(LedgerCalls) = 2
        /\ LedgerCalls[1].before = ZeroStock
        /\ LedgerCalls[1].AdjustmentType = AdjustmentTypeAdd
        /\ LedgerCalls[1].StockType = StockTypeVAT
        /\ LedgerCalls[1].Quantity = 10
        /\ LedgerCalls[2].AdjustmentType = AdjustmentTypeReduce
        /\ LedgerCalls[2].StockType = StockTypeVAT
        /\ LedgerCalls[2].Quantity = 15)
       => /\ ledger.product.Stock.VAT = StockInfo(10, 15, -5)
          /\ ledger.product.Stock.ActualStock = -5

C2_Witness ==
    /\ Len(LedgerCalls) = 2
    /\ LedgerCalls[1].before = ZeroStock
    /\ LedgerCalls[1].AdjustmentType = AdjustmentTypeAdd
    /\ LedgerCalls[1].StockType = StockTypeVAT
    /\ LedgerCalls[1].Quantity = 10
    /\ LedgerCalls[2].AdjustmentType = AdjustmentTypeReduce
    /\ LedgerCalls[2].StockType = StockTypeVAT
    /\ LedgerCalls[2].Quantity = 15
    /\ ledger.product.Stock.VAT.Remaining < 0

-----------------------------------------------------------------------------
(* Reading the history *)

Last == log[Len(log)]

\* the products before the first request
InitialProducts == IF log = <<>> THEN products ELSE log[1].before.products

\* the collections at the answer of request i
After(i) == log[i].after

\* no request is in flight, and none was ever in flight together with another
Serial == Busy = {} /\ \A i \in DOMAIN log : log[i].alone

Succeeded(e) == e.status \in {200, 201, 204}

\* the ledger calls persisted by the requests i.., in order
RECURSIVE CallsFrom(_)
CallsFrom(i) == IF i > Len(log) THEN <<>> ELSE log[i].applied \o CallsFrom(i + 1)
AllCalls == CallsFrom(1)

\* the quantity of product pid in a list of items
RECURSIVE ItemQuantity(_, _)
ItemQuantity(items, pid) ==
    IF items = <<>> THEN 0
    ELSE (IF Head(items).ProductID = pid THEN Head(items).Quantity ELSE 0)
         + ItemQuantity(Tail(items), pid)

\* the quantity of product pid over the documents of a collection (purchases or
\* sales) that have the given VAT status
RECURSIVE StoredQuantityOf(_, _, _, _)
StoredQuantityOf(coll, ids, pid, isVAT) ==
    IF ids = {} THEN 0
    ELSE LET id == CHOOSE x \in ids : TRUE
         IN  (IF coll[id].IsVAT = isVAT THEN ItemQuantity(coll[id].Items, pid) ELSE 0)
             + StoredQuantityOf(coll, ids \ {id}, pid, isVAT)
StoredQuantity(coll, pid, isVAT) == StoredQuantityOf(coll, DOMAIN coll, pid, isVAT)

Bucket(isVAT) == IF isVAT THEN "VAT" ELSE "NonVAT"

-----------------------------------------------------------------------------
(* Claims about the orchestrators *)

PurchaseHandlers == {"CreatePurchase", "UpdatePurchase", "DeletePurchase"}
SaleHandlers == {"CreateSale", "UpdateSale", "DeleteSale"}

\* C3: after any serial sequence of successful purchase create, update and
\* delete requests, and nothing else, on products that start with zero stock,
\* the remaining counter of every product in each VAT bucket is the sum of the
\* product's item quantities over the stored purchases of that VAT status.
C3_RemainingIsSumOfStoredPurchases ==
    (/\ Serial
     /\ \A pid \in DOMAIN InitialProducts : InitialProducts[pid].Stock = ZeroStock
     /\ \A i \in DOMAIN log : log[i].handler \in PurchaseHandlers /\ Succeeded(log[i])
                              /\ log[i].fault = NoFault)
    => \A pid \in DOMAIN products, isVAT \in BOOLEAN :
           products[pid].Stock[Bucket(isVAT)].Remaining = StoredQuantity(purchases, pid, isVAT)

\* every request so far was a successful sale create, update or delete, and
\* they ran one after another
OnlySuccessfulSales ==
    /\ Serial
    /\ \A i \in DOMAIN log :
          log[i].handler \in SaleHandlers /\ Succeeded(log[i])

\* C4: after any serial sequence of successful sale create, update and delete
\* requests whose item product ids all resolve, and nothing else, the remaining
\* counter of every product in each VAT bucket is its initial value minus the sum
\* of the product's item quantities over the stored sales of that VAT status, and
\* the actual stock has changed by the same total.
C4_RemainingIsInitialMinusStoredSales ==
    OnlySuccessfulSales
    => \A pid \in DOMAIN products :
           LET initial == InitialProducts[pid].Stock
               now == products[pid].Stock
           IN  /\ \A isVAT \in BOOLEAN :
                      now[Bucket(isVAT)].Remaining =
                          initial[Bucket(isVAT)].Remaining - StoredQuantity(sales, pid, isVAT)
               /\ now.ActualStock =
                      initial.ActualStock - StoredQuantity(sales, pid, TRUE)
                                          - StoredQuantity(sales, pid, FALSE)

\* the stock a ledger call leaves, given the stock it finds
StockAfter(stock, adjustmentType, stockType, quantity) ==
    ApplyStockAdjustment(NewProduct("p1", stock), adjustmentType, stockType, quantity).Stock

\* C5: every audit record written by a manual stock adjustment, a purchase
\* creation or a sale creation has as its before-snapshot the stock immediately
\* before the ledger mutation and as its after-snapshot the stock immediately
\* after it, so that the two differ exactly in the fields the record's stock
\* type and adjustment type touch, by the record's quantity.
C5_SnapshotsAreBeforeAndAfter ==
    \A i \in DOMAIN log :
        log[i].handler \in {"AdjustStock", "CreatePurchase", "CreateSale"} =>
            \A k \in DOMAIN log[i].applied :
                LET c == log[i].applied[k]
                IN  Has(After(i).adjustments, c.rec) =>
                        LET a == After(i).adjustments[c.rec]
                        IN  /\ a.Before = c.before
                            /\ a.After = c.after
                            /\ a.After = StockAfter(a.Before, a.AdjustmentType,
                                                    a.StockType, a.Quantity)

Orchestrators ==
    {"CreatePurchase", "UpdatePurchase", "CreateSale", "UpdateSale", "DeleteSale", "AdjustStock"}

\* C6: every persisted change an orchestrator (purchase create or update, sale
\* create, update or delete, manual adjustment) makes to a product's stock
\* through the ledger adds exactly one StockAdjustment record describing it,
\* provided audit writes succeed; existing records are never modified and are
\* removed only by an explicit reversal request.
C6_OneRecordPerLedgerChange ==
    \A i \in {j \in DOMAIN log : log[j].alone} :
        /\ (log[i].handler \in Orchestrators /\ log[i].fault.kind # "audit") =>
               /\ \A k \in DOMAIN log[i].applied :
                      LET c == log[i].applied[k]
                      IN  /\ ~Has(log[i].before.adjustments, c.rec)
                          /\ Has(After(i).adjustments, c.rec)
                          /\ After(i).adjustments[c.rec].ProductID = c.ProductID
                          /\ After(i).adjustments[c.rec].Quantity = c.Quantity
               /\ \A k, l \in DOMAIN log[i].applied :
                      k # l => log[i].applied[k].rec # log[i].applied[l].rec
               /\ Cardinality(DOMAIN After(i).adjustments)
                      = Cardinality(DOMAIN log[i].before.adjustments) + Len(log[i].applied)
        /\ \A id \in DOMAIN log[i].before.adjustments :
               IF Has(After(i).adjustments, id)
               THEN After(i).adjustments[id] = log[i].before.adjustments[id]
               ELSE log[i].handler = "DeleteStockAdjustment" /\ log[i].target = id

\* the audit write of the request was tried and failed
AuditLost(e) ==
    /\ e.handler \in {"AdjustStock", "CreatePurchase", "CreateSale"}
    /\ e.fault.kind = "audit"
    /\ \E k \in DOMAIN e.applied : e.applied[k].rec = ZeroID

\* the items of the request whose product id resolves
Resolvable(e) == {k \in DOMAIN e.req.Items : Has(e.before.products, e.req.Items[k].ProductID)}

\* the last ledger call of the request on the product
LastCallOn(e, pid) ==
    e.applied[CHOOSE k \in DOMAIN e.applied :
                  /\ e.applied[k].ProductID = pid
                  /\ \A l \in DOMAIN e.applied : e.applied[l].ProductID = pid => l <= k]

\* C7: if persisting the audit record fails during a manual stock adjustment, a
\* purchase creation or a sale creation, the request still reports success, the
\* product's stock and price update stays persisted, and the remaining items
\* are processed.
C7_AuditFailureIsSwallowed ==
    \A i \in DOMAIN log :
        LET e == log[i]
        IN  (/\ e.alone
             /\ AuditLost(e)
             /\ e.handler = "CreateSale" => Resolvable(e) = DOMAIN e.req.Items) =>
                /\ Succeeded(e)
                /\ \A k \in DOMAIN e.applied :
                       After(i).products[e.applied[k].ProductID].Stock
                           = LastCallOn(e, e.applied[k].ProductID).after
                /\ e.handler = "AdjustStock" => Len(e.applied) = 1
                /\ e.handler # "AdjustStock" =>
                       /\ Len(e.applied) = Cardinality(Resolvable(e))
                       /\ \A k \in Resolvable(e) :
                              After(i).products[e.req.Items[k].ProductID]
                                  .Price[PriceBucket(e.req.IsVAT, e.handler = "CreatePurchase")]
                                  .Latest = e.req.Items[k].UnitPrice
                /\ e.handler = "CreateSale" =>
                       Cardinality(DOMAIN After(i).sales) = Cardinality(DOMAIN e.before.sales) + 1

\* the audit write of the first of two sale items failed; the second item was
\* processed and recorded
C7_Witness ==
    \E i \in DOMAIN log :
        /\ AuditLost(log[i])
        /\ log[i].handler = "CreateSale"
        /\ Len(log[i].applied) = 2
        /\ log[i].applied[1].rec = ZeroID
        /\ log[i].applied[2].rec # ZeroID

\* the stock after the ledger calls k..last of a list, made on one product
RECURSIVE Replay(_, _, _, _, _)
Replay(stock, calls, k, last, pid) ==
    IF k > last THEN stock
    ELSE Replay(IF calls[k].ProductID = pid
                THEN StockAfter(stock, calls[k].AdjustmentType, calls[k].StockType,
                                calls[k].Quantity)
                ELSE stock,
                calls, k + 1, last, pid)

\* the place in the history of the ledger call that wrote record id
CallOfRecord(id) == CHOOSE k \in DOMAIN AllCalls : AllCalls[k].rec = id

\* C8: reversing a stock adjustment A applies the flipped adjustment with A's
\* stock type and quantity to the product's current stock and deletes A's
\* record; so, whatever other ledger operations were made between applying A
\* and reversing it, the product's remaining counters and actual stock after
\* the reversal are what they would be had A never been applied.
C8_ReversalUndoesAdjustment ==
    (Serial /\ log # <<>> /\ Last.handler = "DeleteStockAdjustment" /\ Last.status = 200) =>
        LET A == Last.before.adjustments[Last.target]
            pid == A.ProductID
            current == Last.before.products[pid].Stock
            calls == AllCalls
            kA == CallOfRecord(Last.target)
            without == Replay(calls[kA].before, calls, kA + 1, Len(calls) - 1, pid)
            now == Last.after.products[pid].Stock
        IN  /\ now = StockAfter(current, Flip(A.AdjustmentType), A.StockType, A.Quantity)
            /\ ~Has(Last.after.adjustments, Last.target)
            /\ now.VAT.Remaining = without.VAT.Remaining
            /\ now.NonVAT.Remaining = without.NonVAT.Remaining
            /\ now.ActualStock = without.ActualStock

\* a record was written, another adjustment changed the same product's stock,
\* and then the record was reversed
C8_Witness ==
    /\ Serial
    /\ Len(log) = 3
    /\ Last.handler = "DeleteStockAdjustment"
    /\ Last.status = 200
    /\ log[1].applied # <<>>
    /\ log[1].applied[1].rec = Last.target
    /\ log[2].handler = "AdjustStock"
    /\ log[2].req # log[1].req
    /\ \E k \in DOMAIN log[2].applied :
           log[2].applied[k].ProductID = log[1].applied[1].ProductID

\* C9: DeleteStockAdjustment fails with NotFound both when the adjustment record
\* does not exist and when the adjustment's product no longer exists, and in
\* both cases no product and no adjustment record is changed or deleted.
C9_MissingAnswersNotFound ==
    \A i \in DOMAIN log :
        LET e == log[i]
        IN  (/\ e.alone
             /\ e.handler = "DeleteStockAdjustment"
             /\ \/ ~Has(e.before.adjustments, e.target)
                \/ ~Has(e.before.products, e.before.adjustments[e.target].ProductID)) =>
                /\ e.status = 404
                /\ After(i).products = e.before.products
                /\ After(i).adjustments = e.before.adjustments

\* the sale that request i created
CreatedSale(i) == CHOOSE id \in DOMAIN After(i).sales : ~Has(log[i].before.sales, id)

\* request i created a sale and, when it was answered, request i + 1 deleted it
CreatedThenDeleted(i) ==
    /\ i + 1 \in DOMAIN log
    /\ log[i].alone /\ log[i + 1].alone
    /\ log[i].handler = "CreateSale" /\ log[i].status = 201
    /\ log[i + 1].handler = "DeleteSale" /\ log[i + 1].status = 204
    /\ log[i + 1].target = CreatedSale(i)

\* C10: creating a sale of quantity q of a product and then deleting that sale
\* leaves the bucket's remaining and the actual stock at their values before
\* the sale, but leaves sold and purchased raised by q.
C10_DeleteSaleRaisesLifetimeCounters ==
    \A i \in DOMAIN log :
        CreatedThenDeleted(i) =>
            \A pid \in DOMAIN log[i].before.products :
                LET q == ItemQuantity(log[i].req.Items, pid)
                    f == Bucket(log[i].req.IsVAT)
                    b == log[i].before.products[pid].Stock
                    a == After(i + 1).products[pid].Stock
                IN  /\ a[f].Remaining = b[f].Remaining
                    /\ a.ActualStock = b.ActualStock
                    /\ a[f].Sold = b[f].Sold + q
                    /\ a[f].Purchased = b[f].Purchased + q

\* C11: whenever a manual stock adjustment, a sale creation or a sale update
\* answers 400, the request has modified no stored product, written no audit
\* record and stored or changed no transaction document; a sale whose second
\* item names an unknown product leaves the first item's product untouched.
C11_BadRequestChangesNothing ==
    \A i \in DOMAIN log :
        (/\ log[i].alone
         /\ log[i].handler \in {"AdjustStock", "CreateSale", "UpdateSale"}
         /\ log[i].status = 400) =>
            /\ After(i).products = log[i].before.products
            /\ After(i).adjustments = log[i].before.adjustments
            /\ After(i).sales = log[i].before.sales
            /\ After(i).purchases = log[i].before.purchases

-----------------------------------------------------------------------------
(* RaceSpec: two AdjustStock requests in flight at once.  The handler reads   *)
(* the product, computes the new stock on its own copy, replaces the stored   *)
(* document and then writes the audit record; the scheduler may run another   *)
(* request between any two of these repository calls.                         *)

RaceRequests ==
    {AdjustRequest(t, s, q) : t \in AdjustmentTypes, s \in StockTypes, q \in {2, 3}}
        \cup {AdjustRequest(AdjustmentTypeAdd, StockTypeVAT, 0)}
RaceStock == [VAT |-> StockInfo(5, 2, 3), NonVAT |-> StockInfo(1, 1, 0), ActualStock |-> 3]

RaceInit ==
    /\ config = NoConfig
    /\ products = [p \in ProductIDs |-> NewProduct(p, RaceStock)]
    /\ purchases = EmptyColl
    /\ sales = EmptyColl
    /\ adjustments = EmptyColl
    /\ nextID = 1
    /\ log = <<>>
    /\ ledger = Ledger(ZeroStock)
    /\ workers = [w \in Workers |-> Idle]
    /\ quotations = <<>>
    /\ files = NoFiles

\* POST /products/{id}/adjust-stock, with two quantities
RaceAdjustStock ==
    \E self \in DOMAIN workers :
        \/ /\ Take(self)
           /\ \E target \in ProductIDs \cup {UnknownProduct}, req \in RaceRequests :
                  Commit(self, AdjustStock(DB, Arrive("AdjustStock", target, req, NoFault, NoDoc,
                                                      "productRepo.GetByID")))
        \/ /\ Serving(self, "AdjustStock")
           /\ Commit(self, AdjustStock(DB, workers[self]))

RaceNext == RaceAdjustStock

RaceSpec == RaceInit /\ [][RaceNext]_vars

\* the requests that have been answered 200 for product p
Adjusted(p) == {i \in DOMAIN log : log[i].status = 200 /\ log[i].target = p}
\* the document request i computes from the stock it read
Computed(i) ==
    ApplyStockAdjustment([log[i].read EXCEPT !.Stock = log[i].applied[1].before],
                         log[i].req.AdjustmentType, log[i].req.StockType, log[i].req.Quantity)
AllAnswered == Len(log) = MaxOps

\* C12: two concurrent stock-changing requests on the same product can both
\* read the same stored stock and each write back a full product document:
\* once both are answered, the stored product is the document one of them
\* computed from what it read, so when both read the same stock the final
\* counters reflect only one of the two deltas; nothing prevents it.
C12_StoredProductIsOneRequestsDocument ==
    AllAnswered =>
        \A p \in ProductIDs :
            /\ Adjusted(p) = {} => products[p] = NewProduct(p, RaceStock)
            /\ Adjusted(p) # {} => \E i \in Adjusted(p) : products[p] = Computed(i)

\* both requests added to the VAT bucket of p1 after reading the same stock,
\* both were answered 200, and the stock holds the second delta only
C12_Witness ==
    /\ AllAnswered
    /\ Adjusted("p1") = {1, 2}
    /\ ~log[1].alone
    /\ log[1].applied[1].before = RaceStock
    /\ log[2].applied[1].before = RaceStock
    /\ log[1].req = AdjustRequest(AdjustmentTypeAdd, StockTypeVAT, 2)
    /\ log[2].req = AdjustRequest(AdjustmentTypeAdd, StockTypeVAT, 3)
    /\ products["p1"].Stock.VAT.Remaining = RaceStock.VAT.Remaining + 3
    /\ products["p1"].Stock.ActualStock = RaceStock.ActualStock + 3
    /\ Cardinality(DOMAIN adjustments) = 2

-----------------------------------------------------------------------------
(* CodeRaceSpec: two create requests in flight at once.  A create handler      *)
(* first asks the repository for the next sequence number and inserts its      *)
(* document later; another request may run in between.                         *)

\* a purchase and a sale that have been stored some time ago
StoredPurchase(id, code, isVAT) ==
    [ID |-> id, PurchaseCode |-> code, IsVAT |-> isVAT, Items |-> <<>>]
StoredSale(id, code, isVAT) == [ID |-> id, SaleCode |-> code, IsVAT |-> isVAT, Items |-> <<>>]

\* the collections the server starts on: empty, or with codes of this month
RaceSeeds ==
    {[purchases |-> EmptyColl, sales |-> EmptyColl, nextID |-> 1],
     [purchases |-> Put(EmptyColl, 1, StoredPurchase(1, <<"P", "U", "R", "-", "V", "A", "T", "-", "6", "7", "0", "1", "-", "0", "0", "0", "3">>, TRUE)),
      sales |-> Put(Put(EmptyColl, 2, StoredSale(2, <<"N", "V", "-", "6", "7", "0", "1", "-", "0", "0", "0", "1">>, FALSE)),
                    3, StoredSale(3, <<"I", "N", "V", "-", "6", "7", "0", "1", "-", "0", "0", "0", "7">>, TRUE)),
      nextID |-> 4]}

CodeRaceInit ==
    /\ config = NoConfig
    /\ products = [p \in ProductIDs |-> NewProduct(p, RaceStock)]
    /\ \E seed \in RaceSeeds :
          /\ purchases = seed.purchases
          /\ sales = seed.sales
          /\ nextID = seed.nextID
    /\ adjustments = EmptyColl
    /\ log = <<>>
    /\ ledger = Ledger(ZeroStock)
    /\ workers = [w \in Workers |-> Idle]
    /\ quotations = <<>>
    /\ files = NoFiles

\* POST /purchases of one item, in either tax class and month
RaceCreatePurchase ==
    \E self \in DOMAIN workers :
        \/ /\ Take(self)
           /\ \E isVAT \in BOOLEAN, now \in CodeClocks :
                  Commit(self, CreatePurchase(DB, Arrive("CreatePurchase", ZeroID,
                                                         Request("c1", isVAT, OneItem), NoFault,
                                                         now, "customerRepo.GetByID")))
        \/ /\ Serving(self, "CreatePurchase")
           /\ Commit(self, CreatePurchase(DB, workers[self]))

\* POST /sales of one item
RaceCreateSale ==
    \E self \in DOMAIN workers :
        \/ /\ Take(self)
           /\ \E isVAT \in BOOLEAN, now \in CodeClocks :
                  Commit(self, CreateSale(DB, Arrive("CreateSale", ZeroID,
                                                     Request("c1", isVAT, OneItem), NoFault, now,
                                                     "generateSaleID")))
        \/ /\ Serving(self, "CreateSale")
           /\ Commit(self, CreateSale(DB, workers[self]))

CodeRaceNext == RaceCreatePurchase \/ RaceCreateSale

CodeRaceSpec == CodeRaceInit /\ [][CodeRaceNext]_vars

\* the code of the document request i made, and the stored documents of its
\* collection that carry the code
CodeOf(i) ==
    IF log[i].handler \in {"CreatePurchase", "MigratePurchase"} THEN log[i].doc.PurchaseCode
    ELSE log[i].doc.SaleCode
Copies(i, db) ==
    IF log[i].handler \in {"CreatePurchase", "MigratePurchase"}
    THEN {id \in DOMAIN db.purchases : db.purchases[id].PurchaseCode = CodeOf(i)}
    ELSE {id \in DOMAIN db.sales : db.sales[id].SaleCode = CodeOf(i)}
\* the creations that were answered 201
Created == {i \in DOMAIN log : log[i].handler \in {"CreatePurchase", "CreateSale"}
                                  /\ log[i].status = 201}

\* C13: two concurrent purchase (or sale) creations under the same prefix can
\* both read the same last code and both obtain the same next sequence number:
\* whenever two creations of one kind and prefix computed their codes from the
\* same stored codes, both are stored and carry an identical code.
C13_SameReadGivesSameCode ==
    \A i, j \in Created :
        (/\ i # j
         /\ log[i].handler = log[j].handler
         /\ log[i].req.IsVAT = log[j].req.IsVAT
         /\ log[i].now = log[j].now
         /\ log[i].stored = log[j].stored)
            => /\ CodeOf(i) = CodeOf(j)
               /\ Cardinality(Copies(i, DB)) >= 2

\* with PUR-VAT-6701-0003 the greatest stored code, both creations obtained
\* sequence 4 and two purchases are stored as PUR-VAT-6701-0004
C13_Witness ==
    /\ Created = {1, 2}
    /\ ~log[1].alone
    /\ log[1].stored = {<<"P", "U", "R", "-", "V", "A", "T", "-", "6", "7", "0", "1", "-", "0", "0", "0", "3">>}
    /\ log[2].stored = {<<"P", "U", "R", "-", "V", "A", "T", "-", "6", "7", "0", "1", "-", "0", "0", "0", "3">>}
    /\ log[1].doc.PurchaseCode = <<"P", "U", "R", "-", "V", "A", "T", "-", "6", "7", "0", "1", "-", "0", "0", "0", "4">>
    /\ log[2].doc.PurchaseCode = <<"P", "U", "R", "-", "V", "A", "T", "-", "6", "7", "0", "1", "-", "0", "0", "0", "4">>
    /\ Cardinality({id \in DOMAIN purchases :
                       purchases[id].PurchaseCode = <<"P", "U", "R", "-", "V", "A", "T", "-", "6", "7", "0", "1", "-", "0", "0", "0", "4">>}) = 2

-----------------------------------------------------------------------------
(* CodeSpec: purchases and sales are created, imported from CSV and deleted,  *)
(* one request at a time.  The handlers are the ones of Spec; the requests    *)
(* and the collections the server starts on are chosen for their codes.       *)

\* the codes a CSV file brings: the purchasecode / salecode column is stored
\* as it is written, and an empty column has the code generated
ImportPurchaseCodes ==
    {<<"P", "U", "R", "-", "V", "A", "T", "-", "6", "7", "0", "1", "-", "9", "9", "9", "9">>, <<"P", "U", "R", "-", "V", "A", "T", "-", "6", "7", "0", "1", "-", "0", "0", "0", "A">>, <<"p", "u", "r", "-", "v", "a", "t", "-", "6", "7", "0", "1", "-", "0", "0", "0", "2">>,
     <<"P", "U", "R", "-", "N", "V", "-", "6", "7", "0", "1", "-", "0", "0", "0", "7">>, <<"P", "U", "R", "-", "V", "A", "T", "-", "6", "7", "0", "2", "-", "0", "0", "0", "5">>, <<>>}
ImportSaleCodes == {<<"I", "N", "V", "-", "6", "7", "0", "1", "-", "9", "9", "9", "9">>, <<"I", "N", "V", "-", "6", "7", "0", "1", "-", "0", "0", "0", "A">>, <<"N", "V", "-", "6", "7", "0", "1", "-", "0", "0", "0", "4">>, <<>>}

\* the bodies of POST /purchases and POST /sales
CodeRequests ==
    {Request("c1", TRUE, OneItem), Request("c1", FALSE, OneItem),
     Request(UnknownCustomer, TRUE, OneItem), Request("c1", TRUE, LostItem)}

\* a group of rows of a CSV file
Row(productCode, quantity, unitPrice) ==
    [ProductCode |-> productCode, Quantity |-> quantity, UnitPrice |-> unitPrice]
Group(code, customerCode, isVAT, rows) ==
    [Code |-> code, CustomerCode |-> customerCode, IsVAT |-> isVAT, Rows |-> rows]

\* rows that name p1 and p2 by their codes, a row that names no product, a
\* row whose quantity is no number, a row whose unit price is no number and
\* a row whose quantity cell is blank
OneRow == <<Row(NewProduct("p1", ZeroStock).Code, <<"1">>, <<"1", ".", "0", "0">>)>>
TwoRows ==
    <<Row(NewProduct("p2", ZeroStock).Code, <<"2">>, <<"1", ".", "0", "0">>),
      Row(NewProduct("p1", ZeroStock).Code, <<" ", "1">>, <<"1">>)>>
LostRow ==
    <<Row(NewProduct("p1", ZeroStock).Code, <<"2">>, <<"1", "e", "2">>),
      Row(<<"Z", "Z", "-", "l", "/", "R", "D">>, <<"1">>, <<"1", ".", "0", "0">>)>>
BadQuantityRow == <<Row(NewProduct("p1", ZeroStock).Code, <<"1", "x">>, <<"1", ".", "0", "0">>)>>
BadPriceRow == <<Row(NewProduct("p1", ZeroStock).Code, <<"1">>, <<"1", ",", "0", "0">>)>>
BlankQuantityRow == <<Row(NewProduct("p1", ZeroStock).Code, <<" ">>, <<"+", "5">>)>>

\* the collections the server starts on: empty, or with the last code a month
\* can hold in four digits
CodeSeeds ==
    {[purchases |-> EmptyColl, sales |-> EmptyColl, nextID |-> 1],
     [purchases |-> Put(EmptyColl, 1, StoredPurchase(1, <<"P", "U", "R", "-", "V", "A", "T", "-", "6", "7", "0", "1", "-", "9", "9", "9", "9">>, TRUE)),
      sales |-> Put(EmptyColl, 2, StoredSale(2, <<"I", "N", "V", "-", "6", "7", "0", "1", "-", "9", "9", "9", "9">>, TRUE)),
      nextID |-> 3]}

CodeInit ==
    /\ config = NoConfig
    /\ products = [p \in ProductIDs |-> NewProduct(p, RaceStock)]
    /\ \E seed \in CodeSeeds :
          /\ purchases = seed.purchases
          /\ sales = seed.sales
          /\ nextID = seed.nextID
    /\ adjustments = EmptyColl
    /\ log = <<>>
    /\ ledger = Ledger(ZeroStock)
    /\ workers = [w \in {"w1"} |-> Idle]
    /\ quotations = <<>>
    /\ files = NoFiles

\* the server is followed for MaxCodeOps requests
CodeTake(self) == Free(self) /\ Started < MaxCodeOps

\* the requests of CodeRequests with the writes that may fail
CodeFaults(req, now) ==
    IF req = Request("c1", TRUE, OneItem) /\ now.month = 1
    THEN DocFaults \cup {Fault("product", 1)}
    ELSE {NoFault}

CodeCreatePurchase ==
    \E self \in DOMAIN workers :
        \/ /\ CodeTake(self)
           /\ \E req \in CodeRequests, now \in CodeClocks :
                \E fault \in CodeFaults(req, now) :
                  /\ req \notin {Request("c1", TRUE, OneItem), Request("c1", FALSE, OneItem)}
                        => now.month = 1
                  /\ Commit(self, CreatePurchase(DB, Arrive("CreatePurchase", ZeroID, req, fault,
                                                            now, "customerRepo.GetByID")))
        \/ /\ Serving(self, "CreatePurchase")
           /\ Commit(self, CreatePurchase(DB, workers[self]))

CodeCreateSale ==
    \E self \in DOMAIN workers :
        \/ /\ CodeTake(self)
           /\ \E req \in CodeRequests \ {Request(UnknownCustomer, TRUE, OneItem)},
                 now \in CodeClocks :
                \E fault \in CodeFaults(req, now) :
                  /\ req \notin {Request("c1", TRUE, OneItem), Request("c1", FALSE, OneItem)}
                        => now.month = 1
                  /\ Commit(self, CreateSale(DB, Arrive("CreateSale", ZeroID, req, fault, now,
                                                        "generateSaleID")))
        \/ /\ Serving(self, "CreateSale")
           /\ Commit(self, CreateSale(DB, workers[self]))

\* the groups of a purchase file or a sale file: one row under every code,
\* and under one code a customer that is not stored, a product that is not
\* stored, a quantity that is no number and a unit price that is no number
CodeGroups(importCodes, plain) ==
    {Group(code, "CU-001", TRUE, OneRow) : code \in importCodes}
        \cup {Group(plain, UnknownCustomerCode, TRUE, OneRow),
              Group(plain, "CU-001", FALSE, LostRow),
              Group(plain, "CU-001", FALSE, BadQuantityRow),
              Group(plain, "CU-001", FALSE, BadPriceRow),
              Group(plain, "CU-001", FALSE, BlankQuantityRow)}

CodeImportPurchase ==
    \E self \in DOMAIN workers :
        \/ /\ CodeTake(self)
           /\ \E group \in CodeGroups(ImportPurchaseCodes, <<"P", "-", "0", "0", "1">>), now \in CodeClocks,
                 fault \in DocFaults :
                  /\ now.month = 1
                  /\ fault # NoFault => group = Group(<<>>, "CU-001", TRUE, OneRow)
                  /\ Commit(self, parseAndMigratePurchaseCSV(
                                      DB, Arrive("MigratePurchase", ZeroID, group, fault, now,
                                                 "customerRepo.GetByCustomerCode")))
        \/ /\ Serving(self, "MigratePurchase")
           /\ Commit(self, parseAndMigratePurchaseCSV(DB, workers[self]))

CodeImportSale ==
    \E self \in DOMAIN workers :
        \/ /\ CodeTake(self)
           /\ \E group \in CodeGroups(ImportSaleCodes, <<"S", "-", "0", "0", "1">>), now \in CodeClocks,
                 fault \in DocFaults :
                  /\ now.month = 1
                  /\ fault # NoFault => group = Group(<<>>, "CU-001", TRUE, OneRow)
                  /\ Commit(self, parseAndMigrateSaleCSV(
                                      DB, Arrive("MigrateSale", ZeroID, group, fault, now,
                                                 "customerRepo.GetByCustomerCode")))
        \/ /\ Serving(self, "MigrateSale")
           /\ Commit(self, parseAndMigrateSaleCSV(DB, workers[self]))

\* DELETE /purchases/{id} of a stored purchase and of an id that is not stored
CodeDeletePurchase ==
    \E self \in DOMAIN workers :
        /\ CodeTake(self)
        /\ \E id \in (DOMAIN purchases) \cup {UnknownID} :
              Commit(self, DeletePurchase(DB, Arrive("DeletePurchase", id, <<>>, NoFault, NoDoc,
                                                     "purchaseRepo.Delete")))

\* DELETE /sales/{id} of a stored sale and of an id that is not stored
CodeDeleteSale ==
    \E self \in DOMAIN workers :
        \/ /\ CodeTake(self)
           /\ \E id \in (DOMAIN sales) \cup {UnknownID} :
                  Commit(self, DeleteSale(DB, Arrive("DeleteSale", id, <<>>, NoFault, NoDoc,
                                                     "saleRepo.GetByID")))
        \/ /\ Serving(self, "DeleteSale")
           /\ Commit(self, DeleteSale(DB, workers[self]))

CodeNext ==
    \/ CodeCreatePurchase
    \/ CodeCreateSale
    \/ CodeImportPurchase
    \/ CodeImportSale
    \/ CodeDeletePurchase
    \/ CodeDeleteSale

CodeSpec == CodeInit /\ [][CodeNext]_vars

\* the creations that generated a code: CreateSale generates first of all,
\* CreatePurchase once the customer is found
Generated ==
    {i \in DOMAIN log :
        \/ log[i].handler = "CreateSale"
        \/ (log[i].handler = "CreatePurchase" /\ log[i].status # 400)}
\* the prefix they asked for
PrefixAsked(i) ==
    IF log[i].handler = "CreatePurchase" THEN PurchasePrefix(log[i].req.IsVAT, log[i].now)
    ELSE SalePrefix(log[i].req.IsVAT, log[i].now)

\* C14: in serial execution every purchase or sale created through the create
\* handlers receives a code that no stored transaction of the same kind
\* already has, whatever codes are stored under the prefix and whatever
\* creates, imports and deletes happened before.
C14_CreatedCodeIsFresh ==
    \A i \in Created : log[i].alone => Copies(i, log[i].before) = {}

\* the number a code ends with: the decimal digits after its last dash
TrailingSequence(code) ==
    LET tail == LastDashPart(code)
    IN  IF tail # <<>> /\ \A i \in DOMAIN tail : IsDigit(tail[i])
        THEN [ok |-> TRUE, n |-> DecimalValue(tail)]
        ELSE [ok |-> FALSE, n |-> 0]

\* one more than the sequence of the greatest stored code that starts with the
\* prefix, in any case of the letters; 1 when there is none or it has no number
ExpectedNext(stored, prefix) ==
    LET under == {code \in stored : HasPrefixFold(code, prefix)}
    IN  IF under = {} THEN 1
        ELSE IF TrailingSequence(Greatest(under)).ok
             THEN TrailingSequence(Greatest(under)).n + 1
             ELSE 1

\* the sequence number GetNextSequenceNumber returned to request i
NextReturned(i) ==
    IF log[i].handler = "CreatePurchase"
    THEN PurchaseGetNextSequenceNumber(log[i].stored, PrefixAsked(i))
    ELSE SaleGetNextSequenceNumber(log[i].stored, PrefixAsked(i))

\* C15: GetNextSequenceNumber(prefix) returns 1 plus the sequence of the
\* lexicographically greatest stored code that starts with the prefix
\* (case-insensitively), returns 1 when no stored code matches or the trailing
\* sequence cannot be parsed, and is unaffected by codes stored under any
\* other prefix.
C15_NextIsGreatestSequencePlusOne ==
    \A i \in Generated :
        /\ NextReturned(i) = ExpectedNext(log[i].stored, PrefixAsked(i))
        /\ CodeOf(i) = PrefixAsked(i) \o <<"-">> \o Pad(NextReturned(i), 4)

-----------------------------------------------------------------------------
(* SkuSpec: products are created through the API, imported from CSV, updated *)
(* and deleted, on product collections chosen for their SKU ids.             *)

\* the fields of a product request or of a CSV row the SKU id and the codes
\* are made of: category, size, color
ProductInputs ==
    {<<<<"a", "b", "c">>, <<"1", "0", " ", "X", " ", "2", "0">>, <<"R", "e", "d">>>>,
     <<<<"a">>, <<"L">>, <<"r">>>>,
     <<<<"B", "o", "x">>, <<>>, <<>>>>,
     <<<<"a", "b", " ", "c", "d">>, <<"1", "2", " ">>, <<"r", "d">>>>,
     <<<<"a", "b">>, <<"1", "2">>, <<"r", "d">>>>,
     <<<<>>, <<"L">>, <<"R", "e", "d">>>>}

\* the body of POST /products and PUT /products/{id}
SkuRequest(in) ==
    [Category |-> in[1], Size |-> in[2], Color |-> in[3], ImageURL |-> NoImage,
     Price |-> ZeroPrice, Stock |-> ZeroStock]
\* a data row of the product file; a row may carry a SKU id
SkuRow(sku, in) == [SKUID |-> sku, Category |-> in[1], Size |-> in[2], Color |-> in[3]]

\* the product collection the server starts on: empty, or after earlier
\* creations in the categories abc and ab
SkuSeeds ==
    {EmptyColl,
     [id \in {"p1", "p2", "p3"} |->
        IF id = "p1" THEN StoredProduct(id, <<"A", "B", "C", "-", "0", "0", "0", "7">>, <<"a", "b", "c">>, <<"L">>, <<"R", "e", "d">>, ZeroStock)
        ELSE IF id = "p2" THEN StoredProduct(id, <<"A", "B", "C", "-", "0", "0", "4", "2">>, <<"a", "b", "c">>, <<"M">>, <<"R", "e", "d">>, ZeroStock)
        ELSE StoredProduct(id, <<"A", "B", "-", "0", "1", "0", "0">>, <<"a", "b">>, <<"L">>, <<"R", "e", "d">>, ZeroStock)],
     [id \in {"p1"} |-> StoredProduct(id, <<"A", "B", "C", "-", "9", "9", "9", "9">>, <<"a", "b", "c">>, <<"L">>, <<"R", "e", "d">>, ZeroStock)]}

SkuInit ==
    /\ config \in {NoConfig, CategoriesOnlyConfig, OneEntryConfig}
    /\ products \in SkuSeeds
    /\ purchases = EmptyColl
    /\ sales = EmptyColl
    /\ adjustments = EmptyColl
    /\ nextID = 1
    /\ log = <<>>
    /\ ledger = Ledger(ZeroStock)
    /\ workers = [w \in Workers |-> Idle]
    /\ quotations = <<>>
    /\ files = NoFiles

SkuCreate ==
    \E self \in DOMAIN workers :
        \/ /\ Take(self)
           /\ \E in \in ProductInputs, fault \in DocFaults :
                  /\ fault # NoFault => in[1] = <<"a">>
                  /\ Commit(self, CreateProduct(DB, Arrive("CreateProduct", NilProductID,
                                                           SkuRequest(in), fault, NoDoc,
                                                           "getAllSKUIDs")))
        \/ /\ Serving(self, "CreateProduct")
           /\ Commit(self, CreateProduct(DB, workers[self]))

SkuImport ==
    \E self \in DOMAIN workers :
        \/ /\ Take(self)
           /\ \E sku \in {<<>>, <<"A", "B", "C", "-", "0", "0", "4", "2">>}, in \in ProductInputs, fault \in DocFaults :
                  /\ fault # NoFault => in[1] = <<"a">> /\ sku = <<>>
                  /\ Commit(self, parseAndMigrateProductCSV(
                                      DB, Arrive("ImportProduct", NilProductID, SkuRow(sku, in),
                                                 fault, NoDoc, FirstCall(SkuRow(sku, in)))))
        \/ /\ Serving(self, "ImportProduct")
           /\ Commit(self, parseAndMigrateProductCSV(DB, workers[self]))

SkuUpdate ==
    \E self \in DOMAIN workers :
        \/ /\ Take(self)
           /\ \E id \in (DOMAIN products) \cup {UnknownProduct}, fault \in DocFaults :
                  /\ id = UnknownProduct => fault = NoFault
                  /\ Commit(self, UpdateProduct(
                                      DB, Arrive("UpdateProduct", id,
                                                 SkuRequest(<<<<"a", "b">>, <<"1", "2">>, <<"r", "d">>>>),
                                                 fault, NoDoc, "repo.GetByID")))
        \/ /\ Serving(self, "UpdateProduct")
           /\ Commit(self, UpdateProduct(DB, workers[self]))

SkuDelete ==
    \E self \in DOMAIN workers :
        /\ Take(self)
        /\ \E id \in DOMAIN products :
              Commit(self, DeleteProduct(DB, Arrive("DeleteProduct", id, <<>>, NoFault,
                                                    NoDoc, "repo.Delete")))

SkuNext == SkuCreate \/ SkuImport \/ SkuUpdate \/ SkuDelete

SkuSpec == SkuInit /\ [][SkuNext]_vars

\* the requests that stored a product: log[i].doc is the product as it was
\* inserted, log[i].read the SKU ids getAllSKUIDs returned
Inserted ==
    {i \in DOMAIN log :
        \/ log[i].handler = "CreateProduct" /\ log[i].status = 201
        \/ log[i].handler = "ImportProduct" /\ log[i].status = RowSucceeded}
\* the product handed to ProductRepository.Create
Handed(i) ==
    IF log[i].handler = "CreateProduct" THEN ToProduct(log[i].req) ELSE RowProduct(log[i].req)
SKUsBefore(i) == {log[i].before.products[id].SKUID : id \in DOMAIN log[i].before.products}

\* C16: in serial execution every product created through
\* ProductRepository.Create receives a skuId that differs from the skuId of
\* every stored product, for every category.
C16_CreatedSKUIsFresh ==
    \A i \in Inserted : log[i].alone => log[i].doc.SKUID \notin SKUsBefore(i)

\* a SKU id of the form <2-3 upper-case letters>-<4 digits>, its letters and
\* its number
WellFormedSKU(sku) ==
    \E n \in {2, 3} :
        /\ Len(sku) = n + 5
        /\ \A k \in 1..n : sku[k] \in {Ascii[a] : a \in Ord("A")..Ord("Z")}
        /\ sku[n + 1] = "-"
        /\ \A k \in (n + 2)..(n + 5) : sku[k] \in {Ascii[a] : a \in Ord("0")..Ord("9")}
LettersOf(sku) == SubSeq(sku, 1, Len(sku) - 5)
NumberOf(sku) == DecimalValue(SubSeq(sku, Len(sku) - 3, Len(sku)))
\* the largest number among the well-formed SKU ids with the letters, or 0
LargestNumber(letters, skus) ==
    LET numbers == {NumberOf(s) : s \in {t \in skus : WellFormedSKU(t) /\ LettersOf(t) = letters}}
    IN  IF numbers = {} THEN 0 ELSE CHOOSE n \in numbers : \A m \in numbers : m <= n
SKUsRead(i) == {log[i].read[k] : k \in DOMAIN log[i].read}

\* C17: GetNextSKUNumber(category, existingSKUs) returns the largest number
\* among the existing SKUs of the form <2-3 uppercase letters>-<4 digits>
\* whose letters are the category's abbreviation, and 0 when none is;
\* GenerateSKUID(category, n) is the abbreviation, a dash and n+1 zero-padded
\* to 4 digits, and that is the SKU id the created product is stored with.
C17_NextSKUIsLargestPlusOne ==
    \A i \in Inserted :
        LET category == Handed(i).Category
            abbrev == GetCategoryAbbreviation(category)
            n == LargestNumber(abbrev, SKUsRead(i))
            sku == log[i].doc.SKUID
            digits == SubSeq(sku, Len(abbrev) + 2, Len(sku))
        IN  /\ GetNextSKUNumber(category, log[i].read) = n
            /\ sku = GenerateSKUID(category, n)
            /\ SubSeq(sku, 1, Len(abbrev) + 1) = abbrev \o <<"-">>
            /\ Len(digits) >= 4
            /\ Len(digits) > 4 => digits[1] # "0"
            /\ \A k \in DOMAIN digits : IsDigit(digits[k])
            /\ DecimalValue(digits) = n + 1
            /\ \E id \in DOMAIN log[i].after.products : log[i].after.products[id] = log[i].doc

\* with ABC-0007, ABC-0042 and AB-0100 stored, a product of category abc was
\* created as ABC-0043
C17_Witness ==
    \E i \in Inserted :
        /\ Handed(i).Category = <<"a", "b", "c">>
        /\ SKUsRead(i) = {<<"A", "B", "C", "-", "0", "0", "0", "7">>, <<"A", "B", "C", "-", "0", "0", "4", "2">>, <<"A", "B", "-", "0", "1", "0", "0">>}
        /\ log[i].doc.SKUID = <<"A", "B", "C", "-", "0", "0", "4", "3">>

\* C18: a product created through the CSV product import is stored with the
\* code computed by the migration generator (category, size and color each
\* forced to exactly 2 upper-case characters, padded with X).
C18_ImportStoresMigrationCode ==
    \A i \in Inserted :
        log[i].handler = "ImportProduct" =>
            log[i].doc.Code = generateProductCode(Handed(i).Category, Handed(i).Size,
                                                  Handed(i).Color)

-----------------------------------------------------------------------------
(* Quotation codes *)

\* ss.SkipSpace: the spaces in front of the input are dropped
RECURSIVE SkipSpace(_)
SkipSpace(s) == IF s # <<>> /\ s[1] = " " THEN SkipSpace(Tail(s)) ELSE s

\* fmt.Sscanf, one %0<width>d: leading spaces are dropped and do not count in
\* the width; then an optional sign and decimal digits are read, at most width
\* characters in all; no digit is an error.  The rest of the input is left for
\* the remainder of the format.
ScanInt(s, width) ==
    LET t == SkipSpace(s)
        limit == IF Len(t) < width THEN Len(t) ELSE width
        signed == limit >= 1 /\ t[1] \in {"+", "-"}
        first == IF signed THEN 2 ELSE 1
        stops == {k \in first..limit : ~IsDigit(t[k])}
        stop == IF stops = {} THEN limit + 1 ELSE CHOOSE k \in stops : \A j \in stops : k <= j
        digits == SubSeq(t, first, stop - 1)
    IN  IF digits = <<>> THEN [ok |-> FALSE, n |-> 0, rest |-> t]
        ELSE [ok |-> TRUE,
              n |-> IF signed /\ t[1] = "-" THEN 0 - DecimalValue(digits)
                    ELSE DecimalValue(digits),
              rest |-> SubSeq(t, stop, Len(t))]

\* fmt.Sscanf(lastCode, "QU-%02d%02d-%04d", &lastYear, &lastMonth, &lastSeq):
\* input that is left over after the last number is no error
SscanQuotationCode(lastCode) ==
    IF ~(Len(lastCode) >= 3 /\ SubSeq(lastCode, 1, 3) = <<"Q", "U", "-">>)
    THEN [ok |-> FALSE, lastSeq |-> 0]
    ELSE LET year == ScanInt(SubSeq(lastCode, 4, Len(lastCode)), 2)
             month == ScanInt(year.rest, 2)
             seq == ScanInt(Tail(month.rest), 4)
         IN  IF ~year.ok THEN [ok |-> FALSE, lastSeq |-> 0]
             ELSE IF ~month.ok THEN [ok |-> FALSE, lastSeq |-> 0]
             ELSE IF month.rest = <<>> \/ month.rest[1] # "-" THEN [ok |-> FALSE, lastSeq |-> 0]
             ELSE IF ~seq.ok THEN [ok |-> FALSE, lastSeq |-> 0]
             ELSE [ok |-> TRUE, lastSeq |-> seq.n]

\* QuotationRepository.GetLastQuotationCode: the code of the first document
\* of a sort by code, descending; the empty string when there is no document
GetLastQuotationCode(stored) ==
    IF stored = <<>> THEN <<>> ELSE Greatest({stored[i].QuotationCode : i \in DOMAIN stored})

\* models.GenerateQuotationCode
GenerateQuotationCode(lastCode, now) ==
    IF lastCode = <<>>
    THEN [err |-> FALSE, code |-> <<"Q", "U", "-">> \o DateStr(now) \o <<"-">> \o <<"0", "0", "0", "1">>]
    ELSE IF ~SscanQuotationCode(lastCode).ok THEN [err |-> TRUE, code |-> <<>>]
    ELSE [err |-> FALSE,
          code |-> <<"Q", "U", "-">> \o DateStr(now) \o <<"-">>
                     \o Pad(SscanQuotationCode(lastCode).lastSeq + 1, 4)]

Quotation(id, code) == [ID |-> id, QuotationCode |-> code]

\* the validation of CreateQuotation and UpdateQuotation: customerRepo.GetByID,
\* then productRepo.GetByID item by item; the first lookup that finds nothing
\* ends the request
validateQuotation(db, w, pc) ==
    IF w.pc = "customerRepo.GetByID"
    THEN IF w.req.CustomerID \notin Customers THEN Reply(db, w, 400)
         ELSE IF Len(w.req.Items) = 0 THEN Goto(db, w, pc)
         ELSE Goto(db, [w EXCEPT !.i = 1], "productRepo.GetByID")
    ELSE IF ~Has(db.products, w.req.Items[w.i].ProductID) THEN Reply(db, w, 400)
    ELSE IF w.i >= Len(w.req.Items) THEN Goto(db, w, pc)
    ELSE Goto(db, [w EXCEPT !.i = @ + 1], "productRepo.GetByID")

\* QuotationHandler.CreateQuotation: quotationRepo.GetLastQuotationCode and
\* GenerateQuotationCode, the validation, quotationRepo.Create
CreateQuotation(db, w) ==
    IF w.pc = "quotationRepo.GetLastQuotationCode"
    THEN LET lastCode == GetLastQuotationCode(db.quotations)
             generated == GenerateQuotationCode(lastCode, w.now)
         IN  IF generated.err THEN Reply(db, [w EXCEPT !.read = lastCode], 500)
             ELSE Goto(db, [w EXCEPT !.read = lastCode,
                                     !.doc = Quotation(ZeroID, generated.code)],
                       "customerRepo.GetByID")
    ELSE IF w.pc = "quotationRepo.Create"
    THEN IF Fails(w.fault, "doc", 1) THEN Reply(db, w, 500)
         ELSE Reply([db EXCEPT !.quotations = Append(@, [w.doc EXCEPT !.ID = db.nextID]),
                               !.nextID = @ + 1], w, 201)
    ELSE validateQuotation(db, w, "quotationRepo.Create")

\* the stored quotations with the id
WithID(stored, id) == {i \in DOMAIN stored : stored[i].ID = id}

\* QuotationHandler.UpdateQuotation: quotationRepo.GetByID, UpdateFromRequest,
\* which leaves the code as it is, the validation, quotationRepo.Update
UpdateQuotation(db, w) ==
    IF w.pc = "quotationRepo.GetByID"
    THEN IF WithID(db.quotations, w.target) = {} THEN Reply(db, w, 404)
         ELSE Goto(db, [w EXCEPT !.doc =
                            db.quotations[CHOOSE i \in WithID(db.quotations, w.target) : TRUE]],
                   "customerRepo.GetByID")
    ELSE IF w.pc = "quotationRepo.Update"
    THEN IF Fails(w.fault, "doc", 1) THEN Reply(db, w, 500)
         ELSE Reply([db EXCEPT !.quotations =
                         [i \in DOMAIN @ |-> IF @[i].ID = w.target THEN w.doc ELSE @[i]]], w, 200)
    ELSE validateQuotation(db, w, "quotationRepo.Update")

\* QuotationHandler.DeleteQuotation: DeleteOne
DeleteQuotation(db, w) ==
    IF Fails(w.fault, "doc", 1) THEN Reply(db, w, 500)
    ELSE Reply([db EXCEPT !.quotations = SelectSeq(@, LAMBDA q : q.ID # w.target)], w, 200)

-----------------------------------------------------------------------------
(* QuotationSpec: quotations are created, updated and deleted on a collection *)
(* that may hold codes the server did not write.                              *)

QuotationSeeds ==
    {<<>>,
     <<Quotation(101, <<"Q", "U", "-", "6", "6", "1", "2", "-", "0", "0", "0", "7">>), Quotation(102, <<"Q", "U", "-", "6", "7", "0", "1", "-", "0", "0", "0", "2">>)>>,
     <<Quotation(101, <<"Q", "U", "-", "6", "7", "0", "1", "-", "9", "9", "9", "9">>)>>,
     <<Quotation(101, <<"Q", "U", "-", "6", "7", "0", "1", "-", "0", "0", "0", "A">>)>>,
     <<Quotation(101, <<"Q", "U", "-", "6", "7", "0", "1", "-", "0", "0", "0", "3">>), Quotation(102, <<"q", "u", "-", "6", "7", "0", "1", "-", "0", "0", "0", "1">>)>>,
     <<Quotation(101, <<"Q", "U", "-", "6", "7", "-", "0", "0", "0", "4">>)>>,
     <<Quotation(101, <<"Q", "U", "-", "6", "7", "0", "1", "-", " ", "0", "1", "2">>)>>}

\* the bodies of POST /quotations and PUT /quotations/{id}
QuotationRequests ==
    {Request("c1", TRUE, OneItem), Request(UnknownCustomer, TRUE, OneItem),
     Request("c1", TRUE, LostItem)}

QuotationInit ==
    /\ config = NoConfig
    /\ products = [p \in ProductIDs |-> NewProduct(p, ZeroStock)]
    /\ purchases = EmptyColl
    /\ sales = EmptyColl
    /\ adjustments = EmptyColl
    /\ nextID = 1
    /\ log = <<>>
    /\ ledger = Ledger(ZeroStock)
    /\ workers \in {[w \in Workers |-> Idle], [w \in {"w1"} |-> Idle]}
    /\ quotations \in QuotationSeeds
    /\ files = NoFiles

\* a server that runs one request at a time is followed for MaxQuotationOps
\* requests, one that runs two at a time for MaxOps
QuotationTake(self) ==
    /\ Free(self)
    /\ Started < (IF DOMAIN workers = {"w1"} THEN MaxQuotationOps ELSE MaxOps)

QuotationIDs == {quotations[i].ID : i \in DOMAIN quotations}

QuotationCreate ==
    \E self \in DOMAIN workers :
        \/ /\ QuotationTake(self)
           /\ \E req \in QuotationRequests, now \in CodeClocks, fault \in DocFaults :
                  /\ (req # Request("c1", TRUE, OneItem) \/ fault # NoFault) => now.month = 1
                  /\ req # Request("c1", TRUE, OneItem) => fault = NoFault
                  /\ Commit(self, CreateQuotation(
                                      DB, Arrive("CreateQuotation", ZeroID, req, fault, now,
                                                 "quotationRepo.GetLastQuotationCode")))
        \/ /\ Serving(self, "CreateQuotation")
           /\ Commit(self, CreateQuotation(DB, workers[self]))

QuotationUpdate ==
    \E self \in DOMAIN workers :
        \/ /\ QuotationTake(self)
           /\ \E id \in QuotationIDs \cup {UnknownID}, req \in QuotationRequests,
                 fault \in DocFaults :
                  /\ req # Request("c1", TRUE, OneItem) => fault = NoFault
                  /\ id = UnknownID => req = Request("c1", TRUE, OneItem) /\ fault = NoFault
                  /\ Commit(self, UpdateQuotation(
                                      DB, Arrive("UpdateQuotation", id, req, fault, NoDoc,
                                                 "quotationRepo.GetByID")))
        \/ /\ Serving(self, "UpdateQuotation")
           /\ Commit(self, UpdateQuotation(DB, workers[self]))

QuotationDelete ==
    \E self \in DOMAIN workers :
        /\ QuotationTake(self)
        /\ \E id \in QuotationIDs :
              Commit(self, DeleteQuotation(DB, Arrive("DeleteQuotation", id, <<>>, NoFault,
                                                      NoDoc, "quotationRepo.Delete")))

QuotationNext == QuotationCreate \/ QuotationUpdate \/ QuotationDelete

QuotationSpec == QuotationInit /\ [][QuotationNext]_vars

\* the creations: log[i].read is the code GetLastQuotationCode returned
Creations == {i \in DOMAIN log : log[i].handler = "CreateQuotation"}
\* a code of the form QU-<4 digits>-<4 digits>
WellFormedQuotationCode(code) ==
    /\ Len(code) = 12
    /\ SubSeq(code, 1, 3) = <<"Q", "U", "-">>
    /\ \A k \in 4..7 : IsDigit(code[k])
    /\ code[8] = "-"
    /\ \A k \in 9..12 : IsDigit(code[k])
\* request i found the collection as it was when it arrived and left it so
StoredNothing(i) == log[i].alone => log[i].after.quotations = log[i].before.quotations

\* C19: if the lexicographically greatest stored quotation code does not
\* parse as QU-<YYMM>-<4 digits>, CreateQuotation fails with an error and
\* stores no quotation, and so does every later CreateQuotation for as long
\* as that code remains the greatest stored code.
C19_MalformedLastCodeFailsCreate ==
    \A i \in Creations :
        (log[i].read # <<>> /\ ~WellFormedQuotationCode(log[i].read))
            => log[i].status # 201 /\ StoredNothing(i)

\* C20: CreateQuotation assigns the code QU-<current Buddhist-era YYMM>-<n>,
\* where n is 1 when no quotation is stored and otherwise 1 plus the sequence
\* of the lexicographically greatest stored quotation code, whatever
\* year-month that code carries.
C20_NextQuotationContinuesGreatest ==
    \A i \in Creations :
        (/\ log[i].status = 201
         /\ log[i].read # <<>> => TrailingSequence(log[i].read).ok)
            => /\ SubSeq(log[i].doc.QuotationCode, 1, 8)
                      = <<"Q", "U", "-">> \o DateStr(log[i].now) \o <<"-">>
               /\ TrailingSequence(log[i].doc.QuotationCode).ok
               /\ TrailingSequence(log[i].doc.QuotationCode).n =
                      IF log[i].read = <<>> THEN 1
                      ELSE TrailingSequence(log[i].read).n + 1


-----------------------------------------------------------------------------
(* Prices: Product.UpdatePrice applied to one product, call after call, at any
   reading of the clock *)

MaxPriceOps == 3

\* prices in whole cents: none, 0.29, 100.00, 200.00, 400.00
Prices == {0, 29, 10000, 20000, 40000}

PriceClocks ==
    {[year |-> 2024, month |-> 1], [year |-> 2024, month |-> 2], [year |-> 2025, month |-> 1]}

Buckets == {"PurchaseVAT", "PurchaseNonVAT", "SaleVAT", "SaleNonVAT"}

TierPrice(minQuantity, wholesalePrice) ==
    [MinQuantity |-> minQuantity, MaxQuantity |-> NoDoc, Price |-> ZeroPriceInfo,
     WholesalePrice |-> wholesalePrice]

PricedStock == [VAT |-> StockInfo(5, 2, 3), NonVAT |-> StockInfo(4, 1, 3), ActualStock |-> 6]

PricedProduct(id) ==
    [NewProduct(id, PricedStock) EXCEPT !.Price.SalesTiers = <<TierPrice(10, 9000)>>]

PriceInit ==
    /\ config = NoConfig
    /\ products = [p \in ProductIDs |-> PricedProduct(p)]
    /\ purchases = EmptyColl
    /\ sales = EmptyColl
    /\ adjustments = EmptyColl
    /\ nextID = 1
    /\ log = <<>>
    /\ ledger = Ledger(ZeroStock)
    /\ workers = NoWorkers
    /\ quotations = <<>>
    /\ files = NoFiles

PriceUpdate ==
    /\ Len(log) < MaxPriceOps
    /\ \E newPrice \in Prices, isVAT \in BOOLEAN, isPurchase \in BOOLEAN, now \in PriceClocks :
          LET before == products["p1"]
              after == UpdatePrice(before, newPrice, isVAT, isPurchase, now)
          IN  /\ products' = [products EXCEPT !["p1"] = after]
              /\ log' = Append(log, [handler |-> "UpdatePrice", newPrice |-> newPrice,
                                     isVAT |-> isVAT, isPurchase |-> isPurchase,
                                     bucket |-> PriceBucket(isVAT, isPurchase),
                                     now |-> now, before |-> before, after |-> after])
    /\ UNCHANGED <<purchases, sales, adjustments, nextID, ledger, workers, quotations, files, config>>

PriceNext == PriceUpdate

PriceSpec == PriceInit /\ [][PriceNext]_vars

\* the filled-in bucket of call i, before and after it
Was(i) == log[i].before.Price[log[i].bucket]
Became(i) == log[i].after.Price[log[i].bucket]

\* C21: a call changes nothing of the product but the bucket chosen by
\* (isPurchase, isVAT): the three other buckets, the sales tiers, the stock
\* counters and the id are the same before and after it
C21_OnlyTheChosenBucketChanges ==
    \A i \in 1..Len(log) :
        /\ \A f \in (DOMAIN log[i].before.Price) \ {log[i].bucket} :
              log[i].after.Price[f] = log[i].before.Price[f]
        /\ log[i].after.Stock = log[i].before.Stock
        /\ log[i].after.ID = log[i].before.ID
        /\ DOMAIN log[i].after.Price = Buckets \cup {"SalesTiers"}

\* two buckets are filled and a call has just changed the second one
C21_Witness ==
    \E i \in 1..Len(log) :
        /\ Became(i) # Was(i)
        /\ \E f \in Buckets \ {log[i].bucket} : log[i].before.Price[f] # ZeroPriceInfo
        /\ log[i].before.Price.SalesTiers # <<>>
        /\ log[i].before.Stock # ZeroStock


\* the prices of the calls made on the bucket of call i, up to and including it
PricesOn(i) == {log[j].newPrice : j \in {k \in 1..i : log[k].bucket = log[i].bucket}}

Smallest(ns) == CHOOSE n \in ns : \A o \in ns : n <= o
Largest(ns) == CHOOSE n \in ns : \A o \in ns : n >= o

\* C22: while every price given to a bucket is strictly positive, after each call
\* its min is the smallest and its max the largest price given so far, its latest
\* is the price of that call, and its max is not below the max before the call
C22_MinMaxLatestFollowThePrices ==
    \A i \in 1..Len(log) :
        (\A n \in PricesOn(i) : n > 0)
            => /\ Became(i).Min = Smallest(PricesOn(i))
               /\ Became(i).Max = Largest(PricesOn(i))
               /\ Became(i).Latest = log[i].newPrice
               /\ Became(i).Max >= Was(i).Max

\* three positive prices on one bucket, the smallest of them in the middle
C22_Witness ==
    /\ Len(log) = 3
    /\ \A i \in 1..3 : log[i].bucket = log[1].bucket /\ log[i].newPrice > 0
    /\ log[2].newPrice < log[1].newPrice
    /\ log[2].newPrice < log[3].newPrice
    /\ log[3].newPrice < log[1].newPrice
    /\ Became(3).Min = log[2].newPrice
    /\ Became(3).Max = log[1].newPrice


\* num / den rounded half-up, in whole numbers
HalfUp(num, den) == (2 * num + den) \div (2 * den)

\* C23: each call sets the average to the new price when the average was 0 and
\* otherwise to (previous average + new price) / 2 rounded half-up to a whole cent
C23_AverageIsHalfUpOfTwoPointMean ==
    \A i \in 1..Len(log) :
        Became(i).Average =
            IF Was(i).Average = 0 THEN log[i].newPrice
            ELSE HalfUp(Was(i).Average + log[i].newPrice, 2)

\* C23 (amended): each call sets the average to the new price when the average
\* was 0 and otherwise to the two-point mean (previous average + new price) / 2,
\* not to the mean of all prices: exactly when that mean is a whole number of
\* cents, and when it ends on a half cent either rounded up or, where the float64
\* product x*100 lies below the half, one cent lower (0.29 then 0.00 gives 0.14)
C23_AverageIsFloatRoundedTwoPointMean ==
    \A i \in 1..Len(log) :
        LET sum == Was(i).Average + log[i].newPrice
        IN  IF Was(i).Average = 0 THEN Became(i).Average = log[i].newPrice
            ELSE IF sum % 2 = 0 THEN Became(i).Average = sum \div 2
            ELSE Became(i).Average \in {sum \div 2, sum \div 2 + 1}

\* 100.00, 200.00, 400.00 on one bucket: 150.00 after the second call and 275.00,
\* not the mean 233.33, after the third
C23_Witness ==
    /\ Len(log) = 3
    /\ \A i \in 1..3 : log[i].bucket = log[1].bucket
    /\ <<log[1].newPrice, log[2].newPrice, log[3].newPrice>> = <<10000, 20000, 40000>>
    /\ Became(2).Average = 15000
    /\ Became(3).Average = 27500


\* the calls made on the bucket of call i, up to and including it, in order
CallsOn(i) == SelectSeq([j \in 1..i |-> j], LAMBDA j : log[j].bucket = log[i].bucket)

\* the first of the calls that end the sequence calls with the year of the last
RECURSIVE YearStart(_, _)
YearStart(calls, k) ==
    IF k > 1 /\ log[calls[k - 1]].now.year = log[calls[k]].now.year
    THEN YearStart(calls, k - 1) ELSE k

\* the calls on the bucket of call i since its year began
CallsOfYear(i) == LET calls == CallsOn(i) IN SubSeq(calls, YearStart(calls, Len(calls)), Len(calls))

\* the prices of these calls, added up in float64 in the order of the calls
RECURSIVE SumOfPrices(_, _)
SumOfPrices(calls, k) ==
    IF k = 0 THEN Float64Zero
    ELSE Float64Add(SumOfPrices(calls, k - 1), Float64FromCents(log[calls[k]].newPrice))

\* C24: a call in another year than the bucket's ytdYear leaves ytdYear the
\* current year, ytdCount 1, ytdTotal and averageYTD the new price; a call in the
\* same year raises ytdCount by 1 and ytdTotal by the new price; so ytdCount is
\* the number of calls made since the year began and ytdTotal the sum of their prices
C24_YearToDateResetsAndAccumulates ==
    \A i \in 1..Len(log) :
        /\ Became(i).YTDYear = log[i].now.year
        /\ Was(i).YTDYear # log[i].now.year
              => /\ Became(i).YTDCount = 1
                 /\ Became(i).YTDTotal = Float64FromCents(log[i].newPrice)
                 /\ Became(i).AverageYTD = log[i].newPrice
        /\ Was(i).YTDYear = log[i].now.year
              => /\ Became(i).YTDCount = Was(i).YTDCount + 1
                 /\ Became(i).YTDTotal =
                        Float64Add(Was(i).YTDTotal, Float64FromCents(log[i].newPrice))
        /\ Became(i).YTDCount = Len(CallsOfYear(i))
        /\ Became(i).YTDTotal = SumOfPrices(CallsOfYear(i), Len(CallsOfYear(i)))

\* a bucket filled in 2024 is reset by a call in 2025 and takes in the next one
C24_Witness ==
    /\ Len(log) = 3
    /\ \A i \in 1..3 : log[i].bucket = log[1].bucket /\ log[i].newPrice > 0
    /\ log[1].now.year = 2024 /\ log[2].now.year = 2025 /\ log[3].now.year = 2025
    /\ Was(2).YTDYear = 2024 /\ Was(2).YTDCount = 1
    /\ Became(2).YTDCount = 1 /\ Became(2).AverageYTD = log[2].newPrice
    /\ Became(3).YTDCount = 2
    /\ log[1].newPrice # log[2].newPrice


\* C30: after every call mtdYear = ytdYear and mtdCount <= ytdCount in every
\* bucket; a call that starts a new year-to-date period also starts a new
\* month-to-date period, and a call in another month of the same year starts a
\* new month-to-date period while the year-to-date figures take the price in
C30_MonthToDateStaysInsideYearToDate ==
    /\ \A b \in Buckets :
          /\ products["p1"].Price[b].MTDYear = products["p1"].Price[b].YTDYear
          /\ products["p1"].Price[b].MTDCount <= products["p1"].Price[b].YTDCount
    /\ \A i \in 1..Len(log) :
          /\ Became(i).MTDYear = Became(i).YTDYear
          /\ Became(i).MTDCount <= Became(i).YTDCount
          /\ Was(i).YTDYear # log[i].now.year
                => Became(i).YTDCount = 1 /\ Became(i).MTDCount = 1
          /\ (Was(i).YTDYear = log[i].now.year /\ Was(i).MTDMonth # log[i].now.month)
                => /\ Became(i).MTDCount = 1
                   /\ Became(i).MTDTotal = Float64FromCents(log[i].newPrice)
                   /\ Became(i).YTDCount = Was(i).YTDCount + 1
          /\ (Was(i).YTDYear = log[i].now.year /\ Was(i).MTDMonth = log[i].now.month)
                => Became(i).MTDCount = Was(i).MTDCount + 1

\* January 2024, February 2024, January 2025 on one bucket: the month change
\* resets the month only, the year change in the same month as a year before both
C30_Witness ==
    /\ Len(log) = 3
    /\ \A i \in 1..3 : log[i].bucket = log[1].bucket
    /\ log[1].now = [year |-> 2024, month |-> 1]
    /\ log[2].now = [year |-> 2024, month |-> 2]
    /\ log[3].now = [year |-> 2025, month |-> 1]
    /\ Became(2).MTDCount = 1 /\ Became(2).YTDCount = 2
    /\ Became(3).MTDCount = 1 /\ Became(3).YTDCount = 1


-----------------------------------------------------------------------------
(* Audit records and the transaction they name *)

\* StockAdjustmentRepository.GetBySource: the records filed under a source
GetBySource(coll, sourceType, sourceID) ==
    {id \in DOMAIN coll : coll[id].SourceType = sourceType /\ coll[id].SourceID = {sourceID}}

\* the documents request i added to a collection
DocumentsAddedBy(i, name) == (DOMAIN After(i)[name]) \ (DOMAIN log[i].before[name])

\* the audit records request i wrote
RecordsOf(i) ==
    {log[i].applied[k].rec : k \in DOMAIN log[i].applied} \cap (DOMAIN After(i).adjustments)

\* C25: the audit records a successful purchase or sale creation wrote carry as
\* sourceId the id under which the purchase or sale was stored, and the history
\* asked for that source type and id is exactly these records
C25_SourceIdIsStoredTransactionId ==
    \A i \in DOMAIN log :
        (/\ log[i].alone
         /\ log[i].handler \in {"CreatePurchase", "CreateSale"}
         /\ log[i].status = 201) =>
            LET name == IF log[i].handler = "CreatePurchase" THEN "purchases" ELSE "sales"
                sourceType == IF log[i].handler = "CreatePurchase"
                              THEN SourceTypePurchase ELSE SourceTypeSale
            IN  /\ \A r \in RecordsOf(i) :
                      After(i).adjustments[r].SourceID = DocumentsAddedBy(i, name)
                /\ \A id \in DocumentsAddedBy(i, name) :
                      GetBySource(After(i).adjustments, sourceType, id) = RecordsOf(i)


-----------------------------------------------------------------------------
(* CSV migration: MigrationHandler.parseAndMigrateSaleCSV and
   parseAndMigratePurchaseCSV, one group of rows per request *)

\* the stock found by a migration: none, some, and an over-sold non-VAT bucket
MigrationStocks ==
    InitStocks \cup {[VAT |-> StockInfo(3, 1, 2), NonVAT |-> StockInfo(0, 2, -2),
                      ActualStock |-> 2]}

\* the groups of a file: one row and two rows under a code, one row without
\* code, a row that names no product, a customer that is not stored
MigrationGroups ==
    {Group(<<"M", "-", "0", "0", "1">>, "CU-001", TRUE, OneRow), Group(<<>>, "CU-001", FALSE, OneRow),
     Group(<<"M", "-", "0", "0", "2">>, "CU-001", TRUE, TwoRows), Group(<<"M", "-", "0", "0", "3">>, "CU-001", FALSE, LostRow),
     Group(<<"M", "-", "0", "0", "4">>, UnknownCustomerCode, TRUE, OneRow)}

MigrationInit ==
    /\ config = NoConfig
    /\ \E st \in MigrationStocks : products = [p \in ProductIDs |-> NewProduct(p, st)]
    /\ purchases = EmptyColl
    /\ sales = EmptyColl
    /\ adjustments = EmptyColl
    /\ nextID = 1
    /\ log = <<>>
    /\ ledger = Ledger(ZeroStock)
    /\ workers = [w \in Workers |-> Idle]
    /\ quotations = <<>>
    /\ files = NoFiles

DoMigrateSale ==
    \E self \in DOMAIN workers :
        \/ /\ Free(self) /\ Started < MaxMigrationOps
           /\ \E req \in MigrationGroups, now \in Clocks :
                \E fault \in DocFaults \cup {Fault("product", Len(req.Rows))} :
                  Commit(self, parseAndMigrateSaleCSV(
                                   DB, Arrive("MigrateSale", ZeroID, req, fault, now,
                                              "customerRepo.GetByCustomerCode")))
        \/ /\ Serving(self, "MigrateSale")
           /\ Commit(self, parseAndMigrateSaleCSV(DB, workers[self]))

DoMigratePurchase ==
    \E self \in DOMAIN workers :
        \/ /\ Free(self) /\ Started < MaxMigrationOps
           /\ \E req \in MigrationGroups, now \in Clocks :
                \E fault \in DocFaults \cup {Fault("product", Len(req.Rows))} :
                  Commit(self, parseAndMigratePurchaseCSV(
                                   DB, Arrive("MigratePurchase", ZeroID, req, fault, now,
                                              "customerRepo.GetByCustomerCode")))
        \/ /\ Serving(self, "MigratePurchase")
           /\ Commit(self, parseAndMigratePurchaseCSV(DB, workers[self]))

\* groups are migrated while manual adjustments are served
MigrationNext == DoMigrateSale \/ DoMigratePurchase \/ DoAdjustStock

MigrationSpec == MigrationInit /\ [][MigrationNext]_vars

\* C26: every item of a sale taken in by the CSV migration changes the stock as
\* ApplyStockAdjustment(reduce) does: sold raised by the quantity, remaining and
\* actualStock lowered by it, below zero too
C26_MigratedSaleReducesAsLedger ==
    \A i \in DOMAIN log :
        log[i].handler = "MigrateSale" =>
            \A k \in DOMAIN log[i].applied :
                LET c == log[i].applied[k]
                IN  c.after = StockAfter(c.before, AdjustmentTypeReduce, c.StockType, c.Quantity)


\* C27: a CSV product row that is taken in and carries a skuId no stored product
\* uses is stored with exactly that skuId; a generated skuId is stored only for
\* a row without skuId
C27_ImportKeepsSuppliedSKU ==
    \A i \in Inserted :
        log[i].handler = "ImportProduct" =>
            IF Handed(i).SKUID # <<>>
            THEN log[i].doc.SKUID = Handed(i).SKUID
            ELSE log[i].doc.SKUID =
                     GenerateSKUID(Handed(i).Category,
                                   GetNextSKUNumber(Handed(i).Category, log[i].read))


\* remaining = purchased - sold in both buckets
Balanced(stock) ==
    /\ stock.VAT.Remaining = stock.VAT.Purchased - stock.VAT.Sold
    /\ stock.NonVAT.Remaining = stock.NonVAT.Purchased - stock.NonVAT.Sold

\* C28: on a product whose two buckets satisfy remaining = purchased - sold
\* before the first call, remaining = purchased - sold holds in both buckets
\* after every call of any sequence of ledger calls, whatever their adjustment
\* type, stock type and positive quantity
C28_RemainingIsPurchasedMinusSold ==
    (LedgerCalls = <<>> \/ Balanced(LedgerCalls[1].before))
        => /\ Balanced(ledger.product.Stock)
           /\ \A i \in DOMAIN LedgerCalls :
                 LedgerCalls[i].Quantity > 0 /\ Balanced(LedgerCalls[i].after)

\* an add on one bucket and a reduce below zero on the other one, both balanced
C28_Witness ==
    /\ Len(LedgerCalls) = 2
    /\ Balanced(LedgerCalls[1].before)
    /\ LedgerCalls[1].AdjustmentType = AdjustmentTypeAdd
    /\ LedgerCalls[1].StockType = StockTypeNonVAT
    /\ LedgerCalls[2].AdjustmentType = AdjustmentTypeReduce
    /\ LedgerCalls[2].StockType = StockTypeVAT
    /\ ledger.product.Stock.VAT.Remaining < 0
    /\ ledger.product.Stock.NonVAT.Purchased > ledger.product.Stock.NonVAT.Sold
    /\ Balanced(ledger.product.Stock)


\* the audit records request i added
NewRecords(i) == (DOMAIN After(i).adjustments) \ (DOMAIN log[i].before.adjustments)

\* the products whose write failed in request e: the product of a manual
\* adjustment, or of the item of a creation at which the write was set to fail
FailedProducts(e) ==
    IF e.fault.kind # "product" THEN {}
    ELSE IF e.handler = "AdjustStock"
    THEN {e.target} \cap (DOMAIN e.before.products)
    ELSE {e.req.Items[k].ProductID :
             k \in {j \in Resolvable(e) :
                       /\ j = e.fault.at
                       /\ e.req.CustomerID \in Customers
                       /\ e.handler = "CreateSale" => \A l \in 1..j : l \in Resolvable(e)}}

\* C29: in a manual adjustment, a purchase creation and a sale creation every
\* audit record written belongs to a ledger call whose product write was
\* persisted, and carries the stock that write stored; an item whose product
\* write failed leaves the product as it was and gets no record
C29_NoRecordWithoutPersistedProduct ==
    \A i \in DOMAIN log :
        (log[i].alone /\ log[i].handler \in {"AdjustStock", "CreatePurchase", "CreateSale"}) =>
            /\ \A r \in NewRecords(i) :
                  \E k \in DOMAIN log[i].applied :
                      /\ log[i].applied[k].rec = r
                      /\ After(i).adjustments[r].ProductID = log[i].applied[k].ProductID
                      /\ After(i).adjustments[r].After = log[i].applied[k].after
            /\ \A pid \in FailedProducts(log[i]) :
                  /\ After(i).products[pid] = log[i].before.products[pid]
                  /\ \A r \in NewRecords(i) : After(i).adjustments[r].ProductID # pid

\* a purchase of two items is created; the product write of the second item
\* fails: the first item has its record, the second none
C29_Witness ==
    \E i \in DOMAIN log :
        /\ log[i].alone
        /\ log[i].handler = "CreatePurchase"
        /\ log[i].status = 201
        /\ Len(log[i].req.Items) = 2
        /\ FailedProducts(log[i]) = {log[i].req.Items[2].ProductID}
        /\ Cardinality(NewRecords(i)) = 1
        /\ \A r \in NewRecords(i) :
              After(i).adjustments[r].ProductID = log[i].req.Items[1].ProductID
        /\ After(i).products[log[i].req.Items[1].ProductID]
              # log[i].before.products[log[i].req.Items[1].ProductID]

=============================================================================
